---- MODULE Spec2Model ----
(***************************************************************************)
(* A model of the two cores of the HWI BitBox02 / Trezor transport code:   *)
(*   - hwilib/devices/trezorlib/transport/protocol.py                      *)
(*       Protocol.begin_session / end_session (session counting) and      *)
(*       ProtocolV1.write / read (64-byte chunk framing);                  *)
(*   - hwilib/devices/bitbox02.py                                          *)
(*       Bitbox02Client.sign_tx (PSBT -> btc_sign request -> signatures),  *)
(*       get_pubkey_at_path and display_address (key path policy),         *)
(*       bitbox02_exception (error mapping) and init (device lookup).      *)
(* The variables come in groups; each specification moves the groups of    *)
(* the part it is about and leaves the others at their initial values.     *)
(***************************************************************************)
EXTENDS Integers, Sequences, FiniteSets, TLC

VARIABLES
    \* Protocol (session counting)
    session_counter,  \* Protocol.session_counter
    handle_open,      \* state of the physical Handle: TRUE between open() and close()
    link_calls,       \* history: the handle.open()/close() calls, in order
    trace,            \* history: the begin_session/end_session calls, in order
    link_raised,      \* what handle.open()/close() raised in the last call ("": nothing)
    session_raised,   \* what the last begin_session/end_session let out ("": nothing)
    \* ProtocolV1 (chunk framing)
    link,             \* the FIFO of 64-byte blocks between write_chunk and read_chunk
    written,          \* history: one record per ProtocolV1.write call
    injected,         \* history: number of blocks the device put on the link itself
    received,         \* history: one outcome per finished ProtocolV1.read call
    rpc,              \* position of the reader: "idle" or "next" (inside the while loop)
    rtype,            \* read(): msg_type
    rlen,             \* read(): datalen
    rbuf,             \* read(): buffer
    rn,               \* read(): read_chunk calls made so far by the running read
    \* Bitbox02Client.sign_tx
    is_testnet,       \* HardwareWalletClient.is_testnet
    psbt,             \* the PSBT sign_tx was called with, as it was at entry
    partial_sigs,     \* psbt.inputs[i].partial_sigs, the one part sign_tx writes
    spc,              \* position of sign_tx
    idx,              \* input_index / output_index of the running loop
    master_fp,        \* sign_tx: master_fp
    bip44_account,    \* sign_tx: bip44_account (<<>> is None)
    found_pubkeys,    \* sign_tx: found_pubkeys
    inputs,           \* sign_tx: inputs
    outputs,          \* sign_tx: outputs
    request,          \* the btc_sign call made (<<>>: none yet)
    result,           \* how sign_tx ended
    \* Bitbox02Client.get_pubkey_at_path / display_address
    call,             \* the method called and its arguments
    device_calls,     \* history: the btc_xpub / btc_address calls it made
    reply,            \* how the call ended
    \* the bitbox02 library
    answered,         \* history: what the device call of the operation did
    \* threads inside Protocol.begin_session / end_session
    tpc,              \* per thread: the step of the call it is at ("idle": none)
    tloc,             \* per thread: the counter value it has loaded
    overlapped,       \* history: a thread took a step while another was in a call
    \* Bitbox02Client.init
    device_path,      \* Bitbox02Client.device_path
    bb02,             \* Bitbox02Client.bb02 (<<>>: None)
    init_calls,       \* history: number of init() calls
    enumerations,     \* history: number of devices.get_any_bitbox02s() calls
    init_last         \* history: the last init() call and how it ended

sessVars == <<session_counter, handle_open, link_calls, trace, link_raised,
              session_raised>>
wireVars == <<link, written, injected, received, rpc, rtype, rlen, rbuf, rn>>
signVars == <<is_testnet, psbt, partial_sigs, spc, idx, master_fp, bip44_account,
              found_pubkeys, inputs, outputs, request, result>>
pathVars == <<call, device_calls, reply>>
devVars == <<answered>>
thrVars == <<tpc, tloc, overlapped>>
initVars == <<device_path, bb02, init_calls, enumerations, init_last>>
vars == <<sessVars, wireVars, signVars, pathVars, devVars, thrVars, initVars>>

\* ---------------------------------------------------------------- bounds

\* begin_session/end_session calls in one run
MaxCalls == 7
\* ProtocolV1.write calls in one run
MaxMsgs == 2
\* longest serialized payload written
MaxLen == 182
\* blocks the device puts on the link in one run
MaxInject == 3
\* inputs of the PSBT
MaxInputs == 2
\* outputs of the PSBT
MaxOutputs == 1
\* outputs of the PSBTs that vary in their outputs
MaxOuts == 2
\* elements of the longest key path tried (an address path has 5)
MaxPathLen == 6
\* begin_session/end_session calls of one run of the two threads
MaxThreadCalls == 5
\* init() calls on one client
MaxInitCalls == 3
\* devices devices.get_any_bitbox02s() lists
MaxDevices == 2

\* ------------------------------------------------------------- utilities

Min(a, b) == IF a < b THEN a ELSE b

\* Python s[a:b] and s[a:] on a sequence (0-based, half-open, clamped)
PySlice(s, a, b) == SubSeq(s, a + 1, Min(b, Len(s)))

PyFrom(s, a) == SubSeq(s, a + 1, Len(s))

\* variant of Ljust: the last block is left short
Ljust_short(chunk, n) == chunk

\* bytes.ljust(n, b"\x00")
Ljust(chunk, n) ==
    IF Len(chunk) >= n THEN chunk
    ELSE chunk \o [i \in 1..(n - Len(chunk)) |-> 0]

\* =====================================================================
\* Protocol: session counting (protocol.py 84-97)
\* =====================================================================

InitSession ==
    /\ session_counter = 0
    /\ handle_open = FALSE
    /\ link_calls = <<>>
    /\ trace = <<>>
    /\ link_raised = ""
    /\ session_raised = ""

\* variant of OpensLink: a second session opens the link again
OpensLink_upto_1(counter) == counter = 0 \/ counter = 1

\* begin_session: "if self.session_counter == 0"
OpensLink(counter) == counter = 0

\* variant of ClosesLink: every end_session of an active session closes
ClosesLink_any(counter) == counter >= 1

\* end_session: "if self.session_counter == 1"
ClosesLink(counter) == counter = 1

begin_session ==
    /\ Len(trace) < MaxCalls
    /\ IF OpensLink(session_counter)
       THEN /\ handle_open' = TRUE
            /\ link_calls' = Append(link_calls, "open")
       ELSE UNCHANGED <<handle_open, link_calls>>
    /\ session_counter' = session_counter + 1
    /\ trace' = Append(trace, "begin")
    /\ link_raised' = ""
    /\ session_raised' = ""
    /\ UNCHANGED <<wireVars, signVars, pathVars, devVars, thrVars, initVars>>

end_session ==
    /\ Len(trace) < MaxCalls
    /\ IF ClosesLink(session_counter)
       THEN /\ handle_open' = FALSE
            /\ link_calls' = Append(link_calls, "close")
       ELSE UNCHANGED <<handle_open, link_calls>>
    /\ session_counter' = session_counter - 1
    /\ trace' = Append(trace, "end")
    /\ link_raised' = ""
    /\ session_raised' = ""
    /\ UNCHANGED <<wireVars, signVars, pathVars, devVars, thrVars, initVars>>

\* --- two threads calling without serialization ------------------------
\* begin_session and end_session take no lock: the test of the counter, the
\* call of the handle, and the load and the store of "+= 1" / "-= 1" are
\* steps between which the other thread may run.

Threads == {1, 2}

IdleThreads ==
    /\ tpc = [t \in Threads |-> "idle"]
    /\ tloc = [t \in Threads |-> 0]
    /\ overlapped = FALSE

\* thread t takes a step of its call, from step "from" to step "to"
ThreadStep(t, from, to) ==
    /\ tpc[t] = from
    /\ tpc' = [tpc EXCEPT ![t] = to]
    /\ overlapped' = (overlapped \/ \E u \in Threads \ {t} : tpc[u] # "idle")

\* calls made or under way
ThreadCalls == Len(trace) + Cardinality({t \in Threads : tpc[t] # "idle"})

\* line 90: "if self.session_counter == 0"
thread_begin_test ==
    /\ ThreadCalls < MaxThreadCalls
    /\ \E t \in Threads :
         ThreadStep(t, "idle", IF OpensLink(session_counter) THEN "b_open"
                               ELSE "b_load")
    /\ UNCHANGED <<sessVars, tloc>>
    /\ UNCHANGED <<wireVars, signVars, pathVars, devVars, initVars>>

\* line 91: self.handle.open()
thread_begin_open ==
    /\ \E t \in Threads : ThreadStep(t, "b_open", "b_load")
    /\ handle_open' = TRUE
    /\ link_calls' = Append(link_calls, "open")
    /\ UNCHANGED <<session_counter, trace, link_raised, session_raised, tloc>>
    /\ UNCHANGED <<wireVars, signVars, pathVars, devVars, initVars>>

\* line 92, load of self.session_counter
thread_begin_load ==
    /\ \E t \in Threads :
         /\ ThreadStep(t, "b_load", "b_store")
         /\ tloc' = [tloc EXCEPT ![t] = session_counter]
    /\ UNCHANGED sessVars
    /\ UNCHANGED <<wireVars, signVars, pathVars, devVars, initVars>>

\* line 92, store of the loaded value + 1; begin_session returns
thread_begin_store ==
    /\ \E t \in Threads :
         /\ ThreadStep(t, "b_store", "idle")
         /\ session_counter' = tloc[t] + 1
         /\ tloc' = [tloc EXCEPT ![t] = 0]
    /\ trace' = Append(trace, "begin")
    /\ UNCHANGED <<handle_open, link_calls, link_raised, session_raised>>
    /\ UNCHANGED <<wireVars, signVars, pathVars, devVars, initVars>>

\* line 95: "if self.session_counter == 1"
thread_end_test ==
    /\ ThreadCalls < MaxThreadCalls
    /\ \E t \in Threads :
         ThreadStep(t, "idle", IF ClosesLink(session_counter) THEN "e_close"
                               ELSE "e_load")
    /\ UNCHANGED <<sessVars, tloc>>
    /\ UNCHANGED <<wireVars, signVars, pathVars, devVars, initVars>>

\* line 96: self.handle.close()
thread_end_close ==
    /\ \E t \in Threads : ThreadStep(t, "e_close", "e_load")
    /\ handle_open' = FALSE
    /\ link_calls' = Append(link_calls, "close")
    /\ UNCHANGED <<session_counter, trace, link_raised, session_raised, tloc>>
    /\ UNCHANGED <<wireVars, signVars, pathVars, devVars, initVars>>

\* line 97, load of self.session_counter
thread_end_load ==
    /\ \E t \in Threads :
         /\ ThreadStep(t, "e_load", "e_store")
         /\ tloc' = [tloc EXCEPT ![t] = session_counter]
    /\ UNCHANGED sessVars
    /\ UNCHANGED <<wireVars, signVars, pathVars, devVars, initVars>>

\* line 97, store of the loaded value - 1; end_session returns
thread_end_store ==
    /\ \E t \in Threads :
         /\ ThreadStep(t, "e_store", "idle")
         /\ session_counter' = tloc[t] - 1
         /\ tloc' = [tloc EXCEPT ![t] = 0]
    /\ trace' = Append(trace, "end")
    /\ UNCHANGED <<handle_open, link_calls, link_raised, session_raised>>
    /\ UNCHANGED <<wireVars, signVars, pathVars, devVars, initVars>>

\* what handle.open() and handle.close() may raise
LinkErrors == {"OSError", "TransportException"}

\* variant of begin_session_open_raises: the counter is incremented before
\* the link is opened
begin_session_open_raises_counted ==
    /\ Len(trace) < MaxCalls
    /\ OpensLink(session_counter)
    /\ \E exc \in LinkErrors :
         /\ link_raised' = exc
         /\ session_raised' = exc
    /\ link_calls' = Append(link_calls, "open_raised")
    /\ trace' = Append(trace, "begin_raised")
    /\ session_counter' = session_counter + 1
    /\ UNCHANGED handle_open
    /\ UNCHANGED <<wireVars, signVars, pathVars, devVars, thrVars, initVars>>

\* begin_session when handle.open() raises: line 92 is not reached and the
\* exception leaves begin_session
begin_session_open_raises ==
    /\ Len(trace) < MaxCalls
    /\ OpensLink(session_counter)
    /\ \E exc \in LinkErrors :
         /\ link_raised' = exc
         /\ session_raised' = exc
    /\ link_calls' = Append(link_calls, "open_raised")
    /\ trace' = Append(trace, "begin_raised")
    /\ UNCHANGED <<session_counter, handle_open>>
    /\ UNCHANGED <<wireVars, signVars, pathVars, devVars, thrVars, initVars>>

\* end_session when handle.close() raises: line 97 is not reached and the
\* exception leaves end_session; whether the handle is still open is the
\* handle's matter
end_session_close_raises ==
    /\ Len(trace) < MaxCalls
    /\ ClosesLink(session_counter)
    /\ \E exc \in LinkErrors :
         /\ link_raised' = exc
         /\ session_raised' = exc
    /\ link_calls' = Append(link_calls, "close_raised")
    /\ trace' = Append(trace, "end_raised")
    /\ handle_open' \in BOOLEAN
    /\ UNCHANGED session_counter
    /\ UNCHANGED <<wireVars, signVars, pathVars, devVars, thrVars, initVars>>

\* =====================================================================
\* ProtocolV1: chunk framing (protocol.py 28, 136-192)
\* =====================================================================

REPLEN == 64

\* ord("?") and ord("#")
QMARK == 63
HASH == 35

InitWire ==
    /\ link = <<>>
    /\ written = <<>>
    /\ injected = 0
    /\ received = <<>>
    /\ rpc = "idle"
    /\ rtype = 0
    /\ rlen = 0
    /\ rbuf = <<>>
    /\ rn = 0

\* struct.pack(">HL", t, n): 2 + 4 bytes, big-endian
Pack_HL(t, n) ==
    << (t \div 256) % 256, t % 256,
       (n \div 16777216) % 256, (n \div 65536) % 256, (n \div 256) % 256, n % 256 >>

\* struct.unpack(">HL", b) of 6 bytes: <<msg_type, datalen>>
Unpack_HL(b) ==
    << b[1] * 256 + b[2],
       b[3] * 16777216 + b[4] * 65536 + b[5] * 256 + b[6] >>

\* write(): buffer = bytearray(b"##" + header + ser)
WriteBuffer(type, ser) == <<HASH, HASH>> \o Pack_HL(type, Len(ser)) \o ser

\* write(): the while loop; the blocks handed to handle.write_chunk, in order
RECURSIVE WriteChunks(_)
WriteChunks(buffer) ==
    IF buffer = <<>> THEN <<>>
    ELSE <<Ljust(<<QMARK>> \o PySlice(buffer, 0, REPLEN - 1), REPLEN)>>
         \o WriteChunks(PyFrom(buffer, 63))

\* the serialized payloads of the model: lengths around every block boundary
\* (first block carries 55 payload bytes, each later one 63), two fillings
PayloadLens ==
    {L \in 0..MaxLen : L <= 1 \/ (L % 63) \in {54, 55, 56} \/ L = MaxLen}

Fill(kind, L) ==
    [i \in 1..L |-> IF kind = "zero" THEN 0 ELSE (i + 33) % 256]

\* (type tag, filling): 0x0102 with zero bytes, which padding cannot be told
\* from, and 0xFF3F with a ramp through "#" and "?"
MsgKinds == { <<258, "zero">>, <<65343, "ramp">> }

Msgs == { [type |-> k[1], ser |-> Fill(k[2], L)] : k \in MsgKinds, L \in PayloadLens }

\* ProtocolV1.write(msg), msg of type tag m.type serializing to m.ser
write ==
    /\ Len(written) < MaxMsgs
    /\ \E m \in Msgs :
         LET blocks == WriteChunks(WriteBuffer(m.type, m.ser)) IN
           /\ link' = link \o blocks
           /\ written' = Append(written, [type |-> m.type, ser |-> m.ser,
                                          blocks |-> blocks])
    /\ UNCHANGED <<injected, received, rpc, rtype, rlen, rbuf, rn>>
    /\ UNCHANGED <<sessVars, signVars, pathVars, devVars, thrVars, initVars>>

\* read_first: "if chunk[:3] != b'?##'" does not raise
FirstMagicOk(chunk) == PySlice(chunk, 0, 3) = <<QMARK, HASH, HASH>>

\* variant of NextMagicOk: continuation blocks are not checked
NextMagicOk_any(chunk) == TRUE

\* read_next: "if chunk[:1] != b'?'" does not raise
NextMagicOk(chunk) == PySlice(chunk, 0, 1) = <<QMARK>>

\* variant of MoreToRead: the nine header bytes are counted as missing
MoreToRead_header(buffer, datalen) == Len(buffer) < datalen + 9

\* variant of MoreToRead: one block too many when the payload ends a block
MoreToRead_over(buffer, datalen) == Len(buffer) <= datalen

\* read(): "while len(buffer) < datalen"
MoreToRead(buffer, datalen) == Len(buffer) < datalen

\* variant of StripPadding: the padding is kept
StripPadding_none(buffer, datalen) == buffer

\* read(): "buffer[:datalen]"
StripPadding(buffer, datalen) == PySlice(buffer, 0, datalen)

Outcome(kind, type, data, n) ==
    [kind |-> kind, type |-> type, data |-> data, nchunks |-> n]

\* read() after a read_chunk: loop again, or strip the padding and return
ReadContinue(type, datalen, buffer, n) ==
    IF MoreToRead(buffer, datalen)
    THEN /\ rpc' = "next"
         /\ rtype' = type
         /\ rlen' = datalen
         /\ rbuf' = buffer
         /\ rn' = n
         /\ UNCHANGED received
    ELSE /\ rpc' = "idle"
         /\ rtype' = 0
         /\ rlen' = 0
         /\ rbuf' = <<>>
         /\ rn' = 0
         /\ received' = Append(received,
                          Outcome("msg", type, StripPadding(buffer, datalen), n))

\* read() raising RuntimeError out of read_first or read_next
ReadRaise(n) ==
    /\ rpc' = "idle"
    /\ rtype' = 0
    /\ rlen' = 0
    /\ rbuf' = <<>>
    /\ rn' = 0
    /\ received' = Append(received, Outcome("RuntimeError", 0, <<>>, n))

\* read() up to and including read_first(); read_chunk blocks on an empty link
read_first ==
    /\ rpc = "idle"
    /\ link # <<>>
    /\ link' = Tail(link)
    /\ LET chunk == Head(link)
           header == PySlice(chunk, 3, 9)
       IN IF ~FirstMagicOk(chunk) \/ Len(header) # 6
          THEN ReadRaise(1)
          ELSE ReadContinue(Unpack_HL(header)[1], Unpack_HL(header)[2],
                            PyFrom(chunk, 9), 1)
    /\ UNCHANGED <<written, injected>>
    /\ UNCHANGED <<sessVars, signVars, pathVars, devVars, thrVars, initVars>>

\* one turn of read()'s while loop: read_next()
read_next ==
    /\ rpc = "next"
    /\ link # <<>>
    /\ link' = Tail(link)
    /\ LET chunk == Head(link)
       IN IF ~NextMagicOk(chunk)
          THEN ReadRaise(rn + 1)
          ELSE ReadContinue(rtype, rlen, rbuf \o PyFrom(chunk, 1), rn + 1)
    /\ UNCHANGED <<written, injected>>
    /\ UNCHANGED <<sessVars, signVars, pathVars, devVars, thrVars, initVars>>

\* Blocks a device may answer with: the blocks of a one-block and of a
\* three-block message, and the same blocks with a marker byte damaged.
SetByte(chunk, pos, b) == [chunk EXCEPT ![pos] = b]

Range(s) == { s[i] : i \in 1..Len(s) }

GoodBlocks ==
    Range(WriteChunks(WriteBuffer(258, Fill("ramp", 1))))
    \cup Range(WriteChunks(WriteBuffer(258, Fill("ramp", 119))))

DeviceBlocks ==
    GoodBlocks
    \cup { SetByte(b, 1, 0) : b \in GoodBlocks }
    \cup { SetByte(b, 3, 33) : b \in GoodBlocks }

\* Handle.read_chunk's source: the device puts one 64-byte block on the link
device_send ==
    /\ injected < MaxInject
    /\ \E b \in DeviceBlocks : link' = Append(link, b)
    /\ injected' = injected + 1
    /\ UNCHANGED <<written, received, rpc, rtype, rlen, rbuf, rn>>
    /\ UNCHANGED <<sessVars, signVars, pathVars, devVars, thrVars, initVars>>

\* =====================================================================
\* Bitbox02Client.sign_tx (bitbox02.py 411-626)
\* =====================================================================

\* A path element is an unsigned 32-bit number n, kept as its top bit h and
\* its low 31 bits v (n = h * 2^31 + v): HARDENED = 0x80000000 is (1, 0).
U32(h, v) == [h |-> h, v |-> v]

\* HARDENED plus i, for i < 2^31
Hard(i) == U32(1, i)

ERR_INVALID_INPUT == 101

ERR_GENERIC == 103

\* --- the PSBT ---------------------------------------------------------
\* An optional value (None or a value) is a sequence of length 0 or 1.
\* Scripts are kept by their shape, which is all sign_tx looks at.

TxOut(value, spk) == [nValue |-> value, scriptPubKey |-> spk]

\* a previous transaction: its hash and its outputs
PrevTx(hash, vout) == [sha256 |-> hash, vout |-> vout]

\* one entry of hd_keypaths: pubkey -> (fingerprint, path)
KeyAssoc(pubkey, fp, path) == [pubkey |-> pubkey, fp |-> fp, path |-> path]

AddressPath(purpose, account, change, address) ==
    <<Hard(purpose), Hard(0), Hard(account), U32(0, change), U32(0, address)>>

PsbtIn(sighash, prevout_n, nwu, wu, keys, redeem, sigs) ==
    [sighash |-> sighash,
     prevout |-> [hash |-> "txid1", n |-> prevout_n],
     nSequence |-> 1,
     non_witness_utxo |-> nwu,
     witness_utxo |-> wu,
     hd_keypaths |-> keys,
     redeem_script |-> redeem,
     partial_sigs |-> sigs]

PsbtOut(value, spk, keys, redeem) ==
    [nValue |-> value, scriptPubKey |-> spk, hd_keypaths |-> keys,
     redeem_script |-> redeem]

\* --- sign_tx's helpers ------------------------------------------------

\* variant of find_our_key: the last association whose fingerprint is
\* master_fp
RECURSIVE find_our_key_last(_, _)
find_our_key_last(keypaths, fp) ==
    IF keypaths = <<>> THEN <<>>
    ELSE LET later == find_our_key_last(Tail(keypaths), fp) IN
         IF later # <<>> THEN later
         ELSE IF Head(keypaths).fp # fp THEN <<>>
              ELSE <<[pubkey |-> Head(keypaths).pubkey,
                      keypath |-> Head(keypaths).path]>>

\* find_our_key: the first association whose fingerprint is master_fp, as
\* <<[pubkey, keypath]>>; <<>> is (None, None)
RECURSIVE find_our_key(_, _)
find_our_key(keypaths, fp) ==
    IF keypaths = <<>> THEN <<>>
    ELSE IF Head(keypaths).fp # fp
         THEN find_our_key(Tail(keypaths), fp)
         ELSE <<[pubkey |-> Head(keypaths).pubkey, keypath |-> Head(keypaths).path]>>

\* get_simple_type: the BTCScriptConfig simple type, or the error raised
get_simple_type(spk, redeem_script) ==
    IF spk = "p2pkh" THEN [err |-> "legacy_p2pkh", type |-> ""]
    ELSE IF spk = "p2wpkh" THEN [err |-> "", type |-> "P2WPKH"]
    ELSE IF spk = "p2sh" /\ redeem_script = "p2wpkh"
         THEN [err |-> "", type |-> "P2WPKH_P2SH"]
         ELSE [err |-> "input_script", type |-> ""]

\* variant of script_config_index_map: the two indices exchanged
script_config_index_map_swapped(simple_type) ==
    IF simple_type = "P2WPKH" THEN 1 ELSE 0

\* script_config_index_map
script_config_index_map(simple_type) == IF simple_type = "P2WPKH" THEN 0 ELSE 1

\* variant of SighashRejected: SIGHASH_NONE (2) is let through as well
SighashRejected_above_2(sighash) == sighash > 2

\* "if psbt_in.sighash and psbt_in.sighash != 1"
SighashRejected(sighash) == sighash # 0 /\ sighash # 1

\* variant of ResolveUtxo: the hash of the previous transaction is not
\* compared with the one the input refers to
ResolveUtxo_unchecked(psbt_in) ==
    IF psbt_in.non_witness_utxo # <<>>
    THEN LET tx == psbt_in.non_witness_utxo[1] IN
         IF psbt_in.prevout.n >= Len(tx.vout)
         THEN [exc |-> "IndexError", msg |-> "vout",
               utxo |-> <<>>, prevtx |-> <<>>]
         ELSE [exc |-> "", msg |-> "",
               utxo |-> <<tx.vout[psbt_in.prevout.n + 1]>>,
               prevtx |-> <<tx>>]
    ELSE IF psbt_in.witness_utxo # <<>>
         THEN [exc |-> "", msg |-> "", utxo |-> psbt_in.witness_utxo,
               prevtx |-> <<>>]
         ELSE [exc |-> "", msg |-> "", utxo |-> <<>>, prevtx |-> <<>>]

\* lines 483-493: <<utxo, prevtx>> as optional values, or the error raised
\* on the way
ResolveUtxo(psbt_in) ==
    IF psbt_in.non_witness_utxo # <<>>
    THEN LET tx == psbt_in.non_witness_utxo[1] IN
         IF psbt_in.prevout.hash # tx.sha256
         THEN [exc |-> "BadArgumentError", msg |-> "wrong_hash",
               utxo |-> <<>>, prevtx |-> <<>>]
         ELSE IF psbt_in.prevout.n >= Len(tx.vout)
              THEN [exc |-> "IndexError", msg |-> "vout",
                    utxo |-> <<>>, prevtx |-> <<>>]
              ELSE [exc |-> "", msg |-> "",
                    utxo |-> <<tx.vout[psbt_in.prevout.n + 1]>>,
                    prevtx |-> <<tx>>]
    ELSE IF psbt_in.witness_utxo # <<>>
         THEN [exc |-> "", msg |-> "", utxo |-> psbt_in.witness_utxo,
               prevtx |-> <<>>]
         ELSE [exc |-> "", msg |-> "", utxo |-> <<>>, prevtx |-> <<>>]

\* variant of UtxoError: the spent-output record alone is enough
UtxoError_fallback(utxo, prevtx) == IF utxo = <<>> THEN "no_utxo" ELSE ""

\* variant of UtxoError: the two checks in the other order
UtxoError_swapped(utxo, prevtx) ==
    IF prevtx = <<>> THEN "prevtx_missing"
    ELSE IF utxo = <<>> THEN "no_utxo"
         ELSE ""

\* lines 494-499: the two checks on what was resolved
UtxoError(utxo, prevtx) ==
    IF utxo = <<>> THEN "no_utxo"
    ELSE IF prevtx = <<>> THEN "prevtx_missing"
         ELSE ""

\* variant of AccountError: the coin type element is compared, not the
\* account element
AccountError_coin(account, keypath) ==
    IF account = <<>> THEN ""
    ELSE IF account[1] # keypath[2] THEN "mixed_account"
         ELSE ""

\* lines 509-514: "" to go on, or the error raised
AccountError(account, keypath) ==
    IF account = <<>> THEN ""
    ELSE IF account[1] # keypath[3] THEN "mixed_account"
         ELSE ""

\* sign_tx left by an exception: its class, which raise it was, the loop
\* ("inputs", "outputs") or step it was raised in, and the loop index
Raised(stage, exc, msg, at) ==
    [kind |-> "error", stage |-> stage, exc |-> exc, msg |-> msg, at |-> at]

NoResult == [kind |-> "none", stage |-> "", exc |-> "", msg |-> "", at |-> 0 - 1]

Returned == [kind |-> "ok", stage |-> "", exc |-> "", msg |-> "", at |-> 0 - 1]

\* the body of the loop over the inputs for one input: the exception it
\* raises (exc # ""), or what it appends to found_pubkeys and inputs and
\* the account it leaves in bip44_account
InputStep(psbt_in, account, fp) ==
    LET none == [exc |-> "", msg |-> "", pubkey |-> "", account |-> account,
                 input |-> <<>>]
        fail(exc, msg) == [none EXCEPT !.exc = exc, !.msg = msg]
        res == ResolveUtxo(psbt_in)
        key == find_our_key(psbt_in.hd_keypaths, fp)
    IN
    IF SighashRejected(psbt_in.sighash) THEN fail("BadArgumentError", "sighash")
    ELSE IF res.exc # "" THEN fail(res.exc, res.msg)
    ELSE IF UtxoError(res.utxo, res.prevtx) # ""
         THEN fail("BadArgumentError", UtxoError(res.utxo, res.prevtx))
    ELSE IF key = <<>> THEN fail("BadArgumentError", "no_key")
    ELSE IF Len(key[1].keypath) < 3 THEN fail("IndexError", "keypath")
    ELSE IF AccountError(account, key[1].keypath) # ""
         THEN fail("BadArgumentError", AccountError(account, key[1].keypath))
    ELSE LET st == get_simple_type(res.utxo[1].scriptPubKey, psbt_in.redeem_script)
         IN IF st.err # "" THEN fail("BadArgumentError", st.err)
            ELSE IF res.prevtx = <<>> THEN fail("AttributeError", "prevtx")
            ELSE [exc |-> "", msg |-> "",
                  pubkey |-> key[1].pubkey,
                  account |-> <<key[1].keypath[3]>>,
                  input |-> <<[prev_out_hash |-> psbt_in.prevout.hash,
                               prev_out_index |-> psbt_in.prevout.n,
                               prev_out_value |-> res.utxo[1].nValue,
                               sequence |-> psbt_in.nSequence,
                               keypath |-> key[1].keypath,
                               script_config_index |->
                                   script_config_index_map(st.type),
                               prev_tx |-> res.prevtx[1]]>>]

\* the bytes of a script of each shape the loop over the outputs tells
\* apart, around a 20- or 32-byte hash
ScriptBytes(spk) ==
    LET hash(n) == [i \in 1..n |-> 100 + i] IN
    IF spk = "p2pkh" THEN <<118, 169, 20>> \o hash(20) \o <<136, 172>>
    ELSE IF spk = "p2wpkh" THEN <<0, 20>> \o hash(20)
    ELSE IF spk = "p2sh" THEN <<169, 20>> \o hash(20) \o <<135>>
    ELSE IF spk = "p2wsh" THEN <<0, 32>> \o hash(32)
    ELSE <<106>>

\* variant of OutputHash: everything after the first two bytes
OutputHash_from_2(spk) == PyFrom(ScriptBytes(spk), 2)

\* lines 571-582: output_hash, the slice of scriptPubKey taken for each type
OutputHash(spk) ==
    IF spk = "p2pkh" THEN PySlice(ScriptBytes(spk), 3, 23)
    ELSE IF spk = "p2wpkh" THEN PyFrom(ScriptBytes(spk), 2)
    ELSE IF spk = "p2sh" THEN PySlice(ScriptBytes(spk), 2, 22)
    ELSE PyFrom(ScriptBytes(spk), 2)

\* the body of the loop over the outputs for one output; have_inputs says
\* whether the loop over the inputs ran at all (it binds input_index and
\* script_config_index_map)
OutputStep(psbt_out, fp, have_inputs) ==
    LET fail(exc, msg) == [exc |-> exc, msg |-> msg, output |-> <<>>]
        key == find_our_key(psbt_out.hd_keypaths, fp)
        keypath == IF key = <<>> THEN <<>> ELSE key[1].keypath
        spk == psbt_out.scriptPubKey
    IN
    IF Len(keypath) = 1 THEN fail("IndexError", "keypath")
    ELSE IF keypath # <<>> /\ keypath[Len(keypath) - 1] = U32(0, 1)
    THEN LET st == get_simple_type(spk, psbt_out.redeem_script) IN
         IF st.err = "legacy_p2pkh" THEN fail("BadArgumentError", st.err)
         ELSE IF ~have_inputs THEN fail("NameError", "unbound")
         ELSE IF st.err # "" THEN fail("BadArgumentError", st.err)
         ELSE [exc |-> "", msg |-> "",
               output |-> <<[kind |-> "internal", keypath |-> keypath,
                             value |-> psbt_out.nValue,
                             script_config_index |->
                                 script_config_index_map(st.type),
                             output_type |-> "", output_hash |-> <<>>]>>]
    ELSE IF spk \in {"p2pkh", "p2wpkh", "p2sh", "p2wsh"}
         THEN [exc |-> "", msg |-> "",
               output |-> <<[kind |-> "external", keypath |-> <<>>,
                             value |-> psbt_out.nValue,
                             script_config_index |-> 0,
                             output_type |-> spk,
                             output_hash |-> OutputHash(spk)]>>]
         ELSE fail("BadArgumentError", "output_type")

\* variant of BuildRequest: the script config of native segwit alone
BuildRequest_native_only(testnet, account, ins, outs, locktime, version) ==
    LET bip44_network == IF testnet THEN Hard(1) ELSE Hard(0) IN
    [coin |-> IF testnet THEN "TBTC" ELSE "BTC",
     script_configs |->
        << [simple_type |-> "P2WPKH",
            keypath |-> <<Hard(84), bip44_network, account>>] >>,
     inputs |-> ins,
     outputs |-> outs,
     locktime |-> locktime,
     version |-> version]

\* lines 598-619: the arguments of btc_sign
BuildRequest(testnet, account, ins, outs, locktime, version) ==
    LET bip44_network == IF testnet THEN Hard(1) ELSE Hard(0) IN
    [coin |-> IF testnet THEN "TBTC" ELSE "BTC",
     script_configs |->
        << [simple_type |-> "P2WPKH",
            keypath |-> <<Hard(84), bip44_network, account>>],
           [simple_type |-> "P2WPKH_P2SH",
            keypath |-> <<Hard(49), bip44_network, account>>] >>,
     inputs |-> ins,
     outputs |-> outs,
     locktime |-> locktime,
     version |-> version]

\* ser_sig_der(r, s): the DER encoding of (r, s) with SIGHASH_ALL appended
ser_sig_der(r, s) == [r |-> r, s |-> s, hashtype |-> 1]

\* psbt_in.partial_sigs[pubkey] = sig on a dict kept as a set of entries
DictSet(dict, pubkey, sig) ==
    {e \in dict : e.pubkey # pubkey} \cup {[pubkey |-> pubkey, sig |-> sig]}

\* variant of MergeSigs: every signature goes under the first input's key
MergeSigs_first_key(psigs, sigs, pubkeys) ==
    [i \in 1..Len(psigs) |->
        IF i <= Len(sigs) /\ i <= Len(pubkeys)
        THEN DictSet(psigs[i], pubkeys[1],
                     ser_sig_der(PySlice(sigs[i][2], 0, 32),
                                 PySlice(sigs[i][2], 32, 64)))
        ELSE psigs[i]]

\* lines 621-624: zip(sigs, found_pubkeys, psbt.inputs) stops at the shortest
MergeSigs(psigs, sigs, pubkeys) ==
    [i \in 1..Len(psigs) |->
        IF i <= Len(sigs) /\ i <= Len(pubkeys)
        THEN DictSet(psigs[i], pubkeys[i],
                     ser_sig_der(PySlice(sigs[i][2], 0, 32),
                                 PySlice(sigs[i][2], 32, 64)))
        ELSE psigs[i]]

\* variant of MapDeviceError: every Bitbox02Exception becomes a
\* BadArgumentError, whatever its code
MapDeviceError_all_codes(exc, code) ==
    IF exc = "UserAbortException"
    THEN Raised("device", "ActionCanceledError", "canceled", 0 - 1)
    ELSE IF exc = "Bitbox02Exception"
         THEN Raised("device", "BadArgumentError", "invalid input", 0 - 1)
         ELSE IF exc = "FirmwareVersionOutdatedException"
              THEN Raised("device", "DeviceNotReadyError", "outdated", 0 - 1)
              ELSE Raised("device", exc, ToString(code), 0 - 1)

\* bitbox02_exception: the exception the wrapper lets out for one raised by
\* the bitbox02 library inside btc_sign
MapDeviceError(exc, code) ==
    IF exc = "UserAbortException"
    THEN Raised("device", "ActionCanceledError", "canceled", 0 - 1)
    ELSE IF exc = "Bitbox02Exception" /\ code \in {ERR_GENERIC, ERR_INVALID_INPUT}
         THEN Raised("device", "BadArgumentError", "invalid input", 0 - 1)
         ELSE IF exc = "FirmwareVersionOutdatedException"
              THEN Raised("device", "DeviceNotReadyError", "outdated", 0 - 1)
              ELSE Raised("device", exc, ToString(code), 0 - 1)

\* --- the inputs of the model -----------------------------------------

OurFp == "fp_device"

OtherFp == "fp_other"

\* a spent-output record; where it stands beside the previous transaction
\* it differs from that transaction's output, to tell which one is used
Utxo == TxOut(4999, "p2wpkh")

\* the previous transaction the inputs spend output 0 of, by the shape of
\* that output
GoodTx(spk) == <<PrevTx("txid1", <<TxOut(5000, spk)>>)>>

WrongTx == <<PrevTx("txid2", <<TxOut(5000, "p2wpkh")>>)>>

OurKey(account) == KeyAssoc("pk_ours", OurFp, AddressPath(84, account, 0, 7))

OtherKey == KeyAssoc("pk_other", OtherFp, AddressPath(84, 0, 0, 7))

OtherSig == {[pubkey |-> "pk_other", sig |-> ser_sig_der(<<1>>, <<2>>)]}

\* two keys of the device on one input, on different accounts
FirstKey == KeyAssoc("pk_first", OurFp, AddressPath(84, 0, 0, 5))

SecondKey == KeyAssoc("pk_second", OurFp, AddressPath(84, 1, 0, 6))

\* inputs that pass every check: both accounts, both supported script
\* types, an explicit SIGHASH_ALL, a spent-output record beside the previous
\* transaction, a foreign key first, a foreign signature already present,
\* two keys of the device
ValidInputs ==
    { PsbtIn(0, 0, GoodTx("p2wpkh"), <<>>, <<OurKey(a)>>, "", {}) : a \in {0, 1} }
    \cup
    { PsbtIn(1, 0, GoodTx("p2sh"), <<Utxo>>, <<OtherKey, OurKey(0)>>, "p2wpkh",
             OtherSig),
      PsbtIn(0, 0, GoodTx("p2wpkh"), <<>>, <<FirstKey, SecondKey>>, "", {}) }

\* inputs that fail one check, or two
InvalidInputs ==
    { PsbtIn(2, 0, GoodTx("p2wpkh"), <<>>, <<OurKey(0)>>, "", {}),
      PsbtIn(2, 0, <<>>, <<>>, <<OurKey(0)>>, "", {}),
      PsbtIn(0, 0, WrongTx, <<Utxo>>, <<OurKey(0)>>, "", {}),
      PsbtIn(0, 1, WrongTx, <<>>, <<OurKey(0)>>, "", {}),
      PsbtIn(0, 1, GoodTx("p2wpkh"), <<>>, <<OurKey(0)>>, "", {}),
      PsbtIn(0, 0, <<>>, <<Utxo>>, <<OurKey(0)>>, "", OtherSig),
      PsbtIn(0, 0, <<>>, <<Utxo>>, <<OurKey(1)>>, "", {}),
      PsbtIn(0, 0, <<>>, <<>>, <<OurKey(0)>>, "", {}),
      PsbtIn(0, 0, <<>>, <<>>, <<OurKey(1)>>, "", {}),
      PsbtIn(0, 0, GoodTx("p2wpkh"), <<>>, <<OtherKey>>, "", {}),
      PsbtIn(0, 0, GoodTx("p2wpkh"), <<>>,
             <<KeyAssoc("pk_ours", OurFp, <<Hard(84), Hard(0)>>)>>, "", {}),
      PsbtIn(0, 0, GoodTx("p2pkh"), <<>>, <<OurKey(0)>>, "", {}),
      PsbtIn(0, 0, GoodTx("p2sh"), <<>>, <<OurKey(0)>>, "p2wsh", {}),
      PsbtIn(0, 0, GoodTx("p2wsh"), <<>>, <<OurKey(1)>>, "", {}) }

InputPool == ValidInputs \cup InvalidInputs

\* outputs: to a foreign address, our change, and a script of no known shape
OutputPool ==
    { PsbtOut(4000, "p2wpkh", <<>>, ""),
      PsbtOut(900, "p2wpkh",
              <<KeyAssoc("pk_change", OurFp, AddressPath(84, 0, 1, 3))>>, ""),
      PsbtOut(4000, "op_return", <<>>, "") }

SeqsUpTo(S, n) == UNION { [1..k -> S] : k \in 0..n }

\* an input whose signer key path is no address path of the device:
\* purpose 44', account 100', change 2, address 10000
OffPolicyInput ==
    PsbtIn(0, 0, GoodTx("p2wpkh"), <<>>,
           <<KeyAssoc("pk_ours", OurFp,
                      <<Hard(44), Hard(0), Hard(100), U32(0, 2), U32(0, 10000)>>)>>,
           "", {})

\* the inputs of the PSBTs that vary in their outputs: native and wrapped
\* segwit of account 0, and the one off the key path policy
FewInputs ==
    { PsbtIn(0, 0, GoodTx("p2wpkh"), <<>>, <<OurKey(0)>>, "", {}),
      PsbtIn(1, 0, GoodTx("p2sh"), <<Utxo>>, <<OtherKey, OurKey(0)>>, "p2wpkh",
             OtherSig),
      OffPolicyInput }

\* more outputs: the other known shapes to foreign addresses, change of
\* another account, wrapped segwit change, a receive path of the device,
\* a change path of another signer
MoreOutputs ==
    { PsbtOut(3000, "p2pkh", <<>>, ""),
      PsbtOut(2000, "p2sh", <<>>, ""),
      PsbtOut(1000, "p2wsh", <<>>, ""),
      PsbtOut(800, "p2wpkh",
              <<KeyAssoc("pk_change", OurFp, AddressPath(84, 1, 1, 3))>>, ""),
      PsbtOut(700, "p2sh",
              <<KeyAssoc("pk_change", OurFp, AddressPath(49, 0, 1, 4))>>, "p2wpkh"),
      PsbtOut(600, "p2wpkh",
              <<KeyAssoc("pk_receive", OurFp, AddressPath(84, 0, 0, 8))>>, ""),
      PsbtOut(500, "p2wpkh",
              <<KeyAssoc("pk_other", OtherFp, AddressPath(84, 0, 1, 3))>>, "") }

ManyOutputs == OutputPool \cup MoreOutputs

OutPSBTs ==
    { [inputs |-> ins, outputs |-> outs, nLockTime |-> 0, nVersion |-> 2] :
        ins \in SeqsUpTo(FewInputs, MaxInputs),
        outs \in SeqsUpTo(ManyOutputs, MaxOuts) }

PSBTs ==
    { [inputs |-> ins, outputs |-> outs, nLockTime |-> 0, nVersion |-> 2] :
        ins \in SeqsUpTo(InputPool, MaxInputs),
        outs \in SeqsUpTo(OutputPool, MaxOutputs) }

\* the 64-byte signature the device makes for input k
DeviceSig(k) == [i \in 1..64 |-> (k * 64 + i) % 256]

\* what btc_sign may answer for n inputs: one (index, signature) per input
\* in input order, or the last one missing, or the pairs in reverse order
DeviceSigs(n) ==
    { [k \in 1..m |-> <<k - 1, DeviceSig(k)>>] : m \in {n, n - 1} \cap (0..n) }
    \cup { [k \in 1..n |-> <<n - k, DeviceSig(n - k + 1)>>] }

\* what a call into the bitbox02 library did: nothing yet, returned, or raised
NoAnswer == <<>>
AnswerSigs(sigs) == <<[kind |-> "return", sigs |-> sigs, exc |-> "", code |-> 0]>>
AnswerRaise(exc, code) ==
    <<[kind |-> "raise", sigs |-> <<>>, exc |-> exc, code |-> code]>>

\* what the bitbox02 library may raise from btc_sign: (exception, code)
DeviceErrors ==
    { <<"UserAbortException", 0>>,
      <<"Bitbox02Exception", ERR_INVALID_INPUT>>,
      <<"Bitbox02Exception", ERR_GENERIC>>,
      <<"Bitbox02Exception", 102>>,
      <<"FirmwareVersionOutdatedException", 0>> }

\* --- sign_tx, step by step --------------------------------------------

IdleSign ==
    /\ is_testnet = FALSE
    /\ psbt = [inputs |-> <<>>, outputs |-> <<>>, nLockTime |-> 0, nVersion |-> 2]
    /\ partial_sigs = <<>>
    /\ spc = "off"
    /\ idx = 0
    /\ master_fp = ""
    /\ bip44_account = <<>>
    /\ found_pubkeys = <<>>
    /\ inputs = <<>>
    /\ outputs = <<>>
    /\ request = <<>>
    /\ result = NoResult

\* sign_tx is about to be called on some PSBT
InitSign ==
    /\ is_testnet \in BOOLEAN
    /\ psbt \in PSBTs
    /\ partial_sigs = [i \in 1..Len(psbt.inputs) |-> psbt.inputs[i].partial_sigs]
    /\ spc = "start"
    /\ idx = 0
    /\ master_fp = ""
    /\ bip44_account = <<>>
    /\ found_pubkeys = <<>>
    /\ inputs = <<>>
    /\ outputs = <<>>
    /\ request = <<>>
    /\ result = NoResult

\* sign_tx is about to be called on a PSBT of OutPSBTs
InitSignOut ==
    /\ is_testnet \in BOOLEAN
    /\ psbt \in OutPSBTs
    /\ partial_sigs = [i \in 1..Len(psbt.inputs) |-> psbt.inputs[i].partial_sigs]
    /\ spc = "start"
    /\ idx = 0
    /\ master_fp = ""
    /\ bip44_account = <<>>
    /\ found_pubkeys = <<>>
    /\ inputs = <<>>
    /\ outputs = <<>>
    /\ request = <<>>
    /\ result = NoResult

\* the position after the loop over the inputs or outputs has taken n of
\* them
AfterInput(n) == IF n < Len(psbt.inputs) THEN "inputs" ELSE
                 IF Len(psbt.outputs) > 0 THEN "outputs" ELSE "send"

AfterOutput(n) == IF n < Len(psbt.outputs) THEN "outputs" ELSE "send"

\* line 451: the master fingerprint is asked of the device; the device may
\* not be initialized (get_master_fingerprint_hex raises)
sign_tx_begin ==
    /\ spc = "start"
    /\ \E initialized \in BOOLEAN :
         IF initialized
         THEN /\ master_fp' = OurFp
              /\ spc' = AfterInput(0)
              /\ UNCHANGED result
         ELSE /\ result' = Raised("begin", "UnavailableActionError",
                                 "not_initialized", 0 - 1)
              /\ spc' = "done"
              /\ UNCHANGED master_fp
    /\ idx' = 0
    /\ UNCHANGED <<is_testnet, psbt, partial_sigs, bip44_account, found_pubkeys,
                   inputs, outputs, request>>
    /\ UNCHANGED <<sessVars, wireVars, pathVars, devVars, thrVars, initVars>>

\* lines 461-552: one turn of the loop over the inputs
sign_tx_input ==
    /\ spc = "inputs"
    /\ LET step == InputStep(psbt.inputs[idx + 1], bip44_account, master_fp) IN
       IF step.exc # ""
       THEN /\ result' = Raised("inputs", step.exc, step.msg, idx)
            /\ spc' = "done"
            /\ UNCHANGED <<idx, bip44_account, found_pubkeys, inputs>>
       ELSE /\ found_pubkeys' = Append(found_pubkeys, step.pubkey)
            /\ bip44_account' = step.account
            /\ inputs' = inputs \o step.input
            /\ idx' = IF AfterInput(idx + 1) = "inputs" THEN idx + 1 ELSE 0
            /\ spc' = AfterInput(idx + 1)
            /\ UNCHANGED result
    /\ UNCHANGED <<is_testnet, psbt, partial_sigs, master_fp, outputs, request>>
    /\ UNCHANGED <<sessVars, wireVars, pathVars, devVars, thrVars, initVars>>

\* lines 555-594: one turn of the loop over the outputs
sign_tx_output ==
    /\ spc = "outputs"
    /\ LET step == OutputStep(psbt.outputs[idx + 1], master_fp,
                              Len(psbt.inputs) > 0) IN
       IF step.exc # ""
       THEN /\ result' = Raised("outputs", step.exc, step.msg, idx)
            /\ spc' = "done"
            /\ UNCHANGED <<idx, outputs>>
       ELSE /\ outputs' = outputs \o step.output
            /\ idx' = IF AfterOutput(idx + 1) = "outputs" THEN idx + 1 ELSE 0
            /\ spc' = AfterOutput(idx + 1)
            /\ UNCHANGED result
    /\ UNCHANGED <<is_testnet, psbt, partial_sigs, master_fp, bip44_account,
                   found_pubkeys, inputs, request>>
    /\ UNCHANGED <<sessVars, wireVars, pathVars, devVars, thrVars, initVars>>

\* lines 596-619: the assertion, then the btc_sign call goes to the device
sign_tx_send ==
    /\ spc = "send"
    /\ IF bip44_account = <<>>
       THEN /\ result' = Raised("send", "AssertionError", "bip44_account", 0 - 1)
            /\ spc' = "done"
            /\ UNCHANGED request
       ELSE /\ request' = <<BuildRequest(is_testnet, bip44_account[1], inputs,
                                         outputs, psbt.nLockTime, psbt.nVersion)>>
            /\ spc' = "wait"
            /\ UNCHANGED result
    /\ UNCHANGED <<is_testnet, psbt, partial_sigs, idx, master_fp, bip44_account,
                   found_pubkeys, inputs, outputs>>
    /\ UNCHANGED <<sessVars, wireVars, pathVars, devVars, thrVars, initVars>>

\* variant of sign_tx_merge: a response with too few signatures is rejected,
\* but only after the loop has merged the ones that came
sign_tx_merge_late_check ==
    /\ spc = "wait"
    /\ \E sigs \in DeviceSigs(Len(inputs)) :
         /\ partial_sigs' = MergeSigs(partial_sigs, sigs, found_pubkeys)
         /\ result' = IF Len(sigs) < Len(inputs)
                      THEN Raised("merge", "BadArgumentError", "sigs", 0 - 1)
                      ELSE Returned
         /\ answered' = AnswerSigs(sigs)
    /\ spc' = "done"
    /\ UNCHANGED <<is_testnet, psbt, idx, master_fp, bip44_account, found_pubkeys,
                   inputs, outputs, request>>
    /\ UNCHANGED <<sessVars, wireVars, pathVars, thrVars, initVars>>

\* lines 621-626: btc_sign returns the signatures, they are merged into the
\* PSBT and sign_tx returns
sign_tx_merge ==
    /\ spc = "wait"
    /\ \E sigs \in DeviceSigs(Len(inputs)) :
         /\ partial_sigs' = MergeSigs(partial_sigs, sigs, found_pubkeys)
         /\ answered' = AnswerSigs(sigs)
    /\ result' = Returned
    /\ spc' = "done"
    /\ UNCHANGED <<is_testnet, psbt, idx, master_fp, bip44_account, found_pubkeys,
                   inputs, outputs, request>>
    /\ UNCHANGED <<sessVars, wireVars, pathVars, thrVars, initVars>>

\* btc_sign raises: the exception leaves sign_tx through bitbox02_exception
sign_tx_device_error ==
    /\ spc = "wait"
    /\ \E e \in DeviceErrors :
         /\ answered' = AnswerRaise(e[1], e[2])
         /\ result' = MapDeviceError(e[1], e[2])
    /\ spc' = "done"
    /\ UNCHANGED <<is_testnet, psbt, partial_sigs, idx, master_fp, bip44_account,
                   found_pubkeys, inputs, outputs, request>>
    /\ UNCHANGED <<sessVars, wireVars, pathVars, thrVars, initVars>>

\* =====================================================================
\* Key path policy: _get_xpub, get_pubkey_at_path,
\* _check_address_keypath_simple, display_address (bitbox02.py 143-144,
\* 293-409)
\* =====================================================================

\* a <= b on unsigned 32-bit numbers
U32Le(a, b) == a.h < b.h \/ (a.h = b.h /\ a.v <= b.v)

PURPOSE_P2WPKH_P2SH == Hard(49)

PURPOSE_P2WPKH == Hard(84)

PURPOSE_MULTISIG_P2WSH == Hard(48)

\* variant of _keypath_check_account: one account more
keypath_check_account_100(account) ==
    U32Le(Hard(0), account) /\ U32Le(account, Hard(100))

\* _keypath_check_account: HARDENED <= bip44_account <= HARDENED + 99
keypath_check_account(account) ==
    U32Le(Hard(0), account) /\ U32Le(account, Hard(99))

\* _get_coin
get_coin(testnet) == IF testnet THEN "TBTC" ELSE "BTC"

\* _get_xpub: ValueError, or the btc_xpub call it makes
get_xpub(testnet, keypath) ==
    LET expected_coin == IF testnet THEN Hard(1) ELSE Hard(0)
        ValueError == [exc |-> "ValueError", request |-> <<>>]
        btc_xpub(xpub_type) ==
            [exc |-> "",
             request |-> <<[op |-> "btc_xpub", keypath |-> keypath,
                            coin |-> get_coin(testnet), type |-> xpub_type,
                            display |-> FALSE]>>]
    IN
    IF Len(keypath) = 3
    THEN IF keypath[2] # expected_coin \/ ~keypath_check_account(keypath[3])
         THEN ValueError
         ELSE IF keypath[1] \in {PURPOSE_P2WPKH_P2SH, PURPOSE_P2WPKH}
              THEN btc_xpub(IF testnet THEN "TPUB" ELSE "XPUB")
              ELSE ValueError
    ELSE IF Len(keypath) = 4
         THEN IF \/ keypath[1] # PURPOSE_MULTISIG_P2WSH
                 \/ keypath[2] # expected_coin
                 \/ ~keypath_check_account(keypath[3])
                 \/ keypath[4] # Hard(2)
              THEN ValueError
              ELSE btc_xpub(IF testnet THEN "TPUB" ELSE "XPUB")
         ELSE ValueError

\* variant of _check_address_keypath_simple: the change element is not
\* looked at
check_address_keypath_simple_any_change(testnet, path_uint32s, expected_purpose) ==
    /\ Len(path_uint32s) = 5
    /\ path_uint32s[1] = expected_purpose
    /\ path_uint32s[2] = (IF testnet THEN Hard(1) ELSE Hard(0))
    /\ keypath_check_account(path_uint32s[3])
    /\ U32Le(U32(0, 0), path_uint32s[5]) /\ U32Le(path_uint32s[5], U32(0, 9999))

\* _check_address_keypath_simple, on the parsed path
check_address_keypath_simple(testnet, path_uint32s, expected_purpose) ==
    IF Len(path_uint32s) # 5 THEN FALSE
    ELSE IF path_uint32s[1] # expected_purpose THEN FALSE
    ELSE IF path_uint32s[2] # (IF testnet THEN Hard(1) ELSE Hard(0)) THEN FALSE
    ELSE IF ~keypath_check_account(path_uint32s[3]) THEN FALSE
    ELSE IF path_uint32s[4] \notin {U32(0, 0), U32(0, 1)} THEN FALSE
    ELSE IF ~(U32Le(U32(0, 0), path_uint32s[5])
                /\ U32Le(path_uint32s[5], U32(0, 9999))) THEN FALSE
    ELSE TRUE

\* "if redeem_script" on an Optional[str]: None and "" are false
Truthy(optional_str) == optional_str # <<>> /\ optional_str[1] # ""

\* display_address up to the device call: the exception it raises, or the
\* btc_address call it makes
display_address_request(testnet, path, p2sh_p2wpkh, bech32, redeem_script) ==
    LET raise(exc) == [exc |-> exc, request |-> <<>>]
        btc_address(simple_type) ==
            [exc |-> "",
             request |-> <<[op |-> "btc_address", keypath |-> path,
                            coin |-> get_coin(testnet), type |-> simple_type,
                            display |-> TRUE]>>]
    IN
    IF Truthy(redeem_script) THEN raise("NotImplementedError")
    ELSE IF p2sh_p2wpkh
         THEN IF ~check_address_keypath_simple(testnet, path, PURPOSE_P2WPKH_P2SH)
              THEN raise("KeypathError")
              ELSE btc_address("P2WPKH_P2SH")
    ELSE IF bech32
         THEN IF ~check_address_keypath_simple(testnet, path, PURPOSE_P2WPKH)
              THEN raise("KeypathError")
              ELSE btc_address("P2WPKH")
    ELSE raise("UnavailableActionError")

\* --- the key paths of the model ---------------------------------------

\* the values the k-th element of a path takes
PathElems(k) ==
    IF k = 1 THEN {Hard(44), Hard(49), Hard(84), Hard(48), U32(0, 84)}
    ELSE IF k = 2 THEN {Hard(0), Hard(1), U32(0, 0)}
    ELSE IF k = 3 THEN {Hard(0), Hard(99), Hard(100), U32(0, 99)}
    ELSE IF k = 4 THEN {U32(0, 0), U32(0, 1), U32(0, 2), Hard(2)}
    ELSE IF k = 5 THEN {U32(0, 0), U32(0, 9999), U32(0, 10000), Hard(0)}
    ELSE {U32(0, 0)}

RECURSIVE PathsOfLen(_)
PathsOfLen(n) ==
    IF n = 0 THEN {<<>>}
    ELSE { Append(p, e) : p \in PathsOfLen(n - 1), e \in PathElems(n) }

KeyPaths == UNION { PathsOfLen(n) : n \in 0..MaxPathLen }

NoCall == [name |-> "", path |-> <<>>, p2sh_p2wpkh |-> FALSE, bech32 |-> FALSE,
           redeem_script |-> <<>>]

\* the calls of the model; the path is what parse_path made of bip32_path
Calls ==
    { [NoCall EXCEPT !.name = "get_pubkey_at_path", !.path = p] : p \in KeyPaths }
    \cup
    { [name |-> "display_address", path |-> p, p2sh_p2wpkh |-> w, bech32 |-> b,
       redeem_script |-> r] :
        p \in KeyPaths, w \in BOOLEAN, b \in BOOLEAN,
        r \in {<<>>, <<"">>, <<"multisig">>} }

IdlePath ==
    /\ call = NoCall
    /\ device_calls = <<>>
    /\ reply = NoResult

\* no call into the bitbox02 library was made
IdleDevice == answered = NoAnswer

\* one of the two methods is about to be called
InitPath ==
    /\ is_testnet \in BOOLEAN
    /\ psbt = [inputs |-> <<>>, outputs |-> <<>>, nLockTime |-> 0, nVersion |-> 2]
    /\ partial_sigs = <<>>
    /\ spc = "off"
    /\ idx = 0
    /\ master_fp = ""
    /\ bip44_account = <<>>
    /\ found_pubkeys = <<>>
    /\ inputs = <<>>
    /\ outputs = <<>>
    /\ request = <<>>
    /\ result = NoResult
    /\ call \in Calls
    /\ device_calls = <<>>
    /\ reply = NoResult

\* get_pubkey_at_path: a ValueError of _get_xpub becomes a KeypathError; an
\* exception of the device call is let through
get_pubkey_at_path ==
    /\ call.name = "get_pubkey_at_path"
    /\ reply = NoResult
    /\ LET xpub == get_xpub(is_testnet, call.path) IN
       IF xpub.exc = "ValueError"
       THEN /\ reply' = Raised("keypath", "KeypathError", "", 0 - 1)
            /\ UNCHANGED <<device_calls, answered>>
       ELSE /\ device_calls' = device_calls \o xpub.request
            /\ \/ /\ answered' = AnswerSigs(<<>>)
                  /\ reply' = Returned
               \/ \E e \in DeviceErrors :
                    /\ answered' = AnswerRaise(e[1], e[2])
                    /\ reply' = Raised("device", e[1], ToString(e[2]), 0 - 1)
    /\ UNCHANGED <<call, sessVars, wireVars, signVars, thrVars, initVars>>

\* display_address, inside bitbox02_exception
display_address ==
    /\ call.name = "display_address"
    /\ reply = NoResult
    /\ LET address == display_address_request(is_testnet, call.path,
                          call.p2sh_p2wpkh, call.bech32, call.redeem_script) IN
       IF address.exc # ""
       THEN /\ reply' = Raised(IF address.exc = "KeypathError" THEN "keypath"
                               ELSE "arguments", address.exc, "", 0 - 1)
            /\ UNCHANGED <<device_calls, answered>>
       ELSE /\ device_calls' = device_calls \o address.request
            /\ \/ /\ answered' = AnswerSigs(<<>>)
                  /\ reply' = Returned
               \/ \E e \in DeviceErrors :
                    /\ answered' = AnswerRaise(e[1], e[2])
                    /\ reply' = MapDeviceError(e[1], e[2])
    /\ UNCHANGED <<call, sessVars, wireVars, signVars, thrVars, initVars>>

\* =====================================================================
\* Bitbox02Client.init (bitbox02.py 225-268)
\* =====================================================================

\* a device_info of devices.get_any_bitbox02s(): its HID path, and whether
\* check_min_version() finds its firmware outdated
DeviceInfo(path, outdated) == [path |-> path, outdated |-> outdated]

DevicePaths == {"hid_a", "hid_b"}

DeviceInfos == { DeviceInfo(p, o) : p \in DevicePaths, o \in BOOLEAN }

\* what devices.get_any_bitbox02s() may return
DeviceLists == UNION { [1..k -> DeviceInfos] : k \in 0..MaxDevices }

\* bitbox02.BitBox02(transport, device_info, noise_config)
BitBox02(device_info) == [device_info |-> device_info]

InitReturn(obj, enumerated) ==
    [kind |-> "return", obj |-> <<obj>>, exc |-> "", cache |-> <<obj>>,
     enumerated |-> enumerated]

InitRaise(exc, cache) ==
    [kind |-> "raise", obj |-> <<>>, exc |-> exc, cache |-> cache,
     enumerated |-> TRUE]

\* init(): what it returns or raises and what it leaves in self.bb02, for
\* self.bb02 = cache (<<>>: None), self.device_path = path and the devices
\* enumerated. "self.bb02 = bb02; return bb02" is in the body of the for
\* loop, after the if: the loop never gets to a second entry, and with a
\* first entry of another path the local bb02 is read before it was bound
init_outcome(cache, path, devices) ==
    IF cache # <<>> THEN InitReturn(cache[1], FALSE)
    ELSE IF devices = <<>> THEN InitRaise("Exception: Could not find", cache)
    ELSE IF devices[1].path = path
         THEN IF devices[1].outdated
              THEN InitRaise("FirmwareVersionOutdatedException", cache)
              ELSE InitReturn(BitBox02(devices[1]), TRUE)
         ELSE InitRaise("UnboundLocalError", cache)

\* no init() call was made
NoInit ==
    [devices |-> <<>>, before |-> <<>>,
     out |-> [kind |-> "none", obj |-> <<>>, exc |-> "", cache |-> <<>>,
              enumerated |-> FALSE]]

\* no client is in use
IdleClient ==
    /\ device_path = ""
    /\ bb02 = <<>>
    /\ init_calls = 0
    /\ enumerations = 0
    /\ init_last = NoInit

\* __init__: a client for one of the paths, self.bb02 = None
InitClient ==
    /\ device_path \in DevicePaths
    /\ bb02 = <<>>
    /\ init_calls = 0
    /\ enumerations = 0
    /\ init_last = NoInit

\* one call of init()
init ==
    /\ init_calls < MaxInitCalls
    /\ \E devices \in DeviceLists :
         LET out == init_outcome(bb02, device_path, devices) IN
           /\ bb02' = out.cache
           /\ enumerations' = IF out.enumerated THEN enumerations + 1
                               ELSE enumerations
           /\ init_last' = [devices |-> IF out.enumerated THEN devices ELSE <<>>,
                            before |-> bb02, out |-> out]
    /\ init_calls' = init_calls + 1
    /\ UNCHANGED device_path
    /\ UNCHANGED <<sessVars, wireVars, signVars, pathVars, devVars, thrVars>>

\* =====================================================================
\* Specifications
\* =====================================================================

Init ==
    InitSession /\ InitWire /\ IdleSign /\ IdlePath /\ IdleDevice /\ IdleThreads
    /\ IdleClient

\* single-threaded begin_session/end_session calls in any order
NextSession == begin_session \/ end_session

SpecSession == Init /\ [][NextSession]_vars

\* the same calls over a handle whose open() and close() may raise
NextLinkFail ==
    \/ begin_session
    \/ end_session
    \/ begin_session_open_raises
    \/ end_session_close_raises

SpecLinkFail == Init /\ [][NextLinkFail]_vars

\* two threads calling begin_session/end_session on one Protocol object
NextThreads ==
    \/ thread_begin_test
    \/ thread_begin_open
    \/ thread_begin_load
    \/ thread_begin_store
    \/ thread_end_test
    \/ thread_end_close
    \/ thread_end_load
    \/ thread_end_store

SpecThreads == Init /\ [][NextThreads]_vars

\* init() called again and again on one client
NextInit == init

InitFreshClient ==
    InitSession /\ InitWire /\ IdleSign /\ IdlePath /\ IdleDevice /\ IdleThreads
    /\ InitClient

SpecInit == InitFreshClient /\ [][NextInit]_vars

\* ProtocolV1.write feeding ProtocolV1.read through the FIFO link
NextLoop == write \/ read_first \/ read_next

SpecLoop == Init /\ [][NextLoop]_vars

\* ProtocolV1.read fed by a device that may send any block
NextWire == device_send \/ read_first \/ read_next

SpecWire == Init /\ [][NextWire]_vars

\* ProtocolV1.read over a link on which read_chunk always returns a block:
\* a peer has written one message, and any of its blocks may have lost its
\* "?" marker on the way
InitRead ==
    /\ \E m \in Msgs :
         LET blocks == WriteChunks(WriteBuffer(m.type, m.ser)) IN
           /\ written = <<[type |-> m.type, ser |-> m.ser, blocks |-> blocks]>>
           /\ \E bad \in SUBSET (1..Len(blocks)) :
                link = [j \in 1..Len(blocks) |->
                          IF j \in bad THEN SetByte(blocks[j], 1, 0) ELSE blocks[j]]
    /\ injected = 0
    /\ received = <<>>
    /\ rpc = "idle"
    /\ rtype = 0
    /\ rlen = 0
    /\ rbuf = <<>>
    /\ rn = 0

InitReadLink ==
    InitSession /\ InitRead /\ IdleSign /\ IdlePath /\ IdleDevice /\ IdleThreads
    /\ IdleClient

NextRead == read_first \/ read_next

\* read() is a loop without waits of its own: it takes its next step as soon
\* as read_chunk has returned
SpecRead == InitReadLink /\ [][NextRead]_vars /\ WF_vars(NextRead)

\* one call of sign_tx on any PSBT of the model
NextSign ==
    \/ sign_tx_begin
    \/ sign_tx_input
    \/ sign_tx_output
    \/ sign_tx_send
    \/ sign_tx_merge
    \/ sign_tx_device_error

InitSignTx ==
    InitSession /\ InitWire /\ InitSign /\ IdlePath /\ IdleDevice /\ IdleThreads
    /\ IdleClient

SpecSign == InitSignTx /\ [][NextSign]_vars

\* one call of sign_tx on any PSBT of OutPSBTs
InitSignOutTx ==
    InitSession /\ InitWire /\ InitSignOut /\ IdlePath /\ IdleDevice /\ IdleThreads
    /\ IdleClient

SpecSignOut == InitSignOutTx /\ [][NextSign]_vars

\* one call of get_pubkey_at_path or display_address on any path of the model
NextKeypath == get_pubkey_at_path \/ display_address

InitKeypath ==
    InitSession /\ InitWire /\ InitPath /\ IdleDevice /\ IdleThreads
    /\ IdleClient

SpecKeypath == InitKeypath /\ [][NextKeypath]_vars

\* =====================================================================
\* Properties of the chunk framing
\* =====================================================================

\* C3 (SpecLoop): every message read() returns has the type tag and exactly
\* the payload bytes of the message write() was given, in the order written:
\* no padding byte is kept and no payload byte is lost.
C3_RoundTrip ==
    \A k \in 1..Len(received) :
        /\ k <= Len(written)
        /\ received[k].kind = "msg"
        /\ received[k].type = written[k].type
        /\ received[k].data = written[k].ser

\* an empty payload and one longer than two reports both came back
C3_Witness ==
    /\ Len(received) = 2
    /\ received[1].data = <<>> /\ written[1].ser = <<>>
    /\ Len(received[2].data) > 2 * REPLEN
    /\ received[2].data = written[2].ser
    /\ received[2].type = written[2].type

\* the frame format as the interface states it, written without the
\* operators of write()
C4_Sub(ser, from, count) ==
    [i \in 1..(IF Len(ser) - from < count
               THEN (IF Len(ser) - from < 0 THEN 0 ELSE Len(ser) - from)
               ELSE count) |-> ser[from + i]]

C4_Pad(s) == [p \in 1..REPLEN |-> IF p <= Len(s) THEN s[p] ELSE 0]

C4_NBlocks(L) ==
    IF 6 + L <= REPLEN - 3 THEN 1
    ELSE 1 + ((6 + L - (REPLEN - 3)) + (REPLEN - 2)) \div (REPLEN - 1)

C4_Block(type, ser, j) ==
    IF j = 1
    THEN C4_Pad(<<63, 35, 35, type \div 256, type % 256,
                  0, (Len(ser) \div 65536) % 256, (Len(ser) \div 256) % 256,
                  Len(ser) % 256>>
                \o C4_Sub(ser, 0, REPLEN - 9))
    ELSE C4_Pad(<<63>> \o C4_Sub(ser, (REPLEN - 9) + (j - 2) * (REPLEN - 1),
                               REPLEN - 1))

\* C4 (SpecLoop): write() of (T, payload of length L) emits C4_NBlocks(L)
\* blocks of exactly 64 bytes: block 0 is "?##" + T (2 bytes BE) + L (4 bytes
\* BE) + the first 55 payload bytes, every later block is "?" + the next 63
\* payload bytes, and the last block is filled up with zero bytes.
C4_WriteFormat ==
    \A k \in 1..Len(written) :
        LET w == written[k] IN
          /\ Len(w.blocks) = C4_NBlocks(Len(w.ser))
          /\ \A j \in 1..Len(w.blocks) :
               /\ Len(w.blocks[j]) = REPLEN
               /\ w.blocks[j] = C4_Block(w.type, w.ser, j)

\* a message of four blocks whose last block is mostly padding was written
C4_Witness ==
    \E k \in 1..Len(written) :
        /\ Len(written[k].blocks) = 4
        /\ written[k].blocks[4][REPLEN] = 0
        /\ Len(written[k].ser) < 55 + 3 * 63

\* blocks of the messages written after the first n, in link order
RECURSIVE C5_Pending(_)
C5_Pending(n) ==
    IF n >= Len(written) THEN <<>>
    ELSE written[n + 1].blocks \o C5_Pending(n + 1)

\* read_chunk calls a message of declared length L needs: the first block
\* holds 55 payload bytes, every continuation block 63
C5_NeedBlocks(L) == IF L <= 55 THEN 1 ELSE 1 + ((L - 55) + 62) \div 63

\* C5 (SpecLoop): each read() consumes exactly the blocks of one message
\* (one first block, then continuation blocks only while fewer than the
\* declared length of bytes are collected); between reads the link holds
\* exactly the blocks of the messages not yet read, so as many reads as
\* writes return the messages in order and leave the link empty.
C5_ReadAligned ==
    /\ Len(received) <= Len(written)
    /\ \A k \in 1..Len(received) :
         /\ received[k].kind = "msg"
         /\ received[k].nchunks = Len(written[k].blocks)
         /\ received[k].nchunks = C5_NeedBlocks(Len(written[k].ser))
         /\ Len(received[k].data) = Len(written[k].ser)
    /\ rpc = "idle" => link = C5_Pending(Len(received))
    /\ (rpc = "idle" /\ Len(received) = Len(written)) => link = <<>>

\* two messages written back to back, one of them of three blocks or more,
\* were read by two reads and the link is empty
C5_Witness ==
    /\ Len(written) >= 2
    /\ Len(received) = Len(written)
    /\ rpc = "idle"
    /\ link = <<>>
    /\ \E k \in 1..Len(received) : received[k].nchunks >= 3
    /\ \E k \in 1..Len(received) : received[k].nchunks = 1

\* the block read_chunk() is about to return carries the wrong marker for
\* the reader's position
C6_WrongMarker ==
    /\ link # <<>>
    /\ \/ /\ rpc = "idle"
          /\ <<Head(link)[1], Head(link)[2], Head(link)[3]>> # <<63, 35, 35>>
       \/ /\ rpc = "next"
          /\ Head(link)[1] # 63

\* C6 (SpecWire): a read() that takes a first block not starting with "?##",
\* or a continuation block not starting with "?", ends at that block with a
\* RuntimeError: the block is the last one that read() takes, no message is
\* returned, and the reader is back outside read().
C6_FramingTerminal ==
    [][ (C6_WrongMarker /\ link' = Tail(link))
        => /\ rpc' = "idle"
           /\ Len(received') = Len(received) + 1
           /\ received'[Len(received')].kind = "RuntimeError"
           /\ received'[Len(received')].nchunks = rn + 1
           /\ \A k \in 1..Len(received) : received'[k] = received[k] ]_vars

\* one read failed on its first block and another on a continuation block
C6_Witness ==
    /\ \E k \in 1..Len(received) :
         received[k].kind = "RuntimeError" /\ received[k].nchunks = 1
    /\ \E k \in 1..Len(received) :
         received[k].kind = "RuntimeError" /\ received[k].nchunks >= 2

\* =====================================================================
\* Properties of the session counter
\* =====================================================================

\* depth after the first k calls of tr, counted from the calls alone
C7_Depth(tr, k) ==
    Cardinality({i \in 1..k : tr[i] = "begin"})
    - Cardinality({i \in 1..k : tr[i] = "end"})

C7_Balanced(tr) == \A k \in 1..Len(tr) : C7_Depth(tr, k) >= 0

\* the open/close calls the first k calls of tr must cause: open at a begin
\* from depth 0, close at an end from depth 1, nothing otherwise
RECURSIVE C7_Calls(_, _)
C7_Calls(tr, k) ==
    IF k = 0 THEN <<>>
    ELSE IF tr[k] = "begin" /\ C7_Depth(tr, k - 1) = 0
         THEN Append(C7_Calls(tr, k - 1), "open")
         ELSE IF tr[k] = "end" /\ C7_Depth(tr, k - 1) = 1
              THEN Append(C7_Calls(tr, k - 1), "close")
              ELSE C7_Calls(tr, k - 1)

\* C7 (SpecSession): as long as no prefix of the calls has more ends than
\* begins, open() was called exactly at the 0->1 transitions and close()
\* exactly at the 1->0 transitions, in that order, and the link is open
\* exactly while the depth is at least 1; begin;begin;end;end gives one
\* open and then one close.
C7_SessionBoundary ==
    C7_Balanced(trace)
    => /\ session_counter = C7_Depth(trace, Len(trace))
       /\ link_calls = C7_Calls(trace, Len(trace))
       /\ handle_open <=> (session_counter >= 1)
       /\ trace = <<"begin", "begin", "end", "end">>
            => link_calls = <<"open", "close">>

\* begin;begin;end;end was run: one open, one close, link closed again
C7_Witness ==
    /\ trace = <<"begin", "begin", "end", "end">>
    /\ link_calls = <<"open", "close">>
    /\ ~handle_open
    /\ session_counter = 0

\* C8 (SpecSession): the depth counter is never negative, whatever the order
\* of begin_session and end_session calls.
C8_CounterNonNegative == session_counter >= 0

\* =====================================================================
\* Properties of sign_tx
\* =====================================================================

\* the partial signatures of every input are those the PSBT came with
C1_SigsAsAtEntry ==
    partial_sigs = [i \in 1..Len(psbt.inputs) |-> psbt.inputs[i].partial_sigs]

\* the raises of sign_tx's own validation
C1_ValidationMsgs ==
    {"sighash", "wrong_hash", "no_utxo", "prevtx_missing", "no_key",
     "mixed_account", "legacy_p2pkh", "input_script", "output_type"}

\* C1 (SpecSign): a validation failure of sign_tx (sighash, previous
\* transaction missing or not matching, no signer key, mixed accounts,
\* unsupported input script, unrecognized output) is raised while no btc_sign
\* request has gone to the device; and however sign_tx fails, validation or
\* device, every input's partial signatures are what they were at entry.
C1_FailureLeavesPsbt ==
    result.kind = "error"
    => /\ C1_SigsAsAtEntry
       /\ (result.stage \in {"inputs", "outputs"} /\ result.msg \in C1_ValidationMsgs)
            => request = <<>>
       /\ result.stage \in {"begin", "inputs", "outputs", "send"} => request = <<>>

\* the device refused a request that was sent for two inputs, one of which
\* came with a signature of another signer, and nothing was merged
C1_Witness ==
    /\ result.kind = "error"
    /\ result.exc = "ActionCanceledError"
    /\ request # <<>>
    /\ Len(psbt.inputs) = 2
    /\ \E i \in 1..Len(psbt.inputs) : psbt.inputs[i].partial_sigs # {}
    /\ C1_SigsAsAtEntry

\* the signer key path of input i (1-based), <<>> if it has none
C2_SignerPath(i) ==
    LET own == { k \in 1..Len(psbt.inputs[i].hd_keypaths) :
                   psbt.inputs[i].hd_keypaths[k].fp = "fp_device" }
    IN IF own = {} THEN <<>>
       ELSE psbt.inputs[i].hd_keypaths[CHOOSE k \in own : \A m \in own : k <= m].path

\* input i has a signer key path whose account element differs from the
\* one of the first input
C2_Diverges(i) ==
    /\ i > 1
    /\ Len(C2_SignerPath(1)) >= 3
    /\ Len(C2_SignerPath(i)) >= 3
    /\ C2_SignerPath(i)[3] # C2_SignerPath(1)[3]

C2_FirstDiverging(i) == C2_Diverges(i) /\ \A m \in 1..(i - 1) : ~C2_Diverges(m)

\* input i passes the checks sign_tx makes before it looks at the account
C2_ReachesAccountCheck(i) ==
    /\ psbt.inputs[i].sighash \in {0, 1}
    /\ psbt.inputs[i].non_witness_utxo # <<>>
    /\ psbt.inputs[i].non_witness_utxo[1].sha256 = psbt.inputs[i].prevout.hash
    /\ psbt.inputs[i].prevout.n < Len(psbt.inputs[i].non_witness_utxo[1].vout)

\* C2 (SpecSign): if the account element (index 2) of some input's signer
\* key path differs from the first input's, the loop over the inputs never
\* gets past the first such input, sign_tx ends in an error, no request is
\* built or sent, and where the loop fails at the account check of that
\* input the error is the BadArgumentError about mixed accounts; and every
\* input key path of a request that is sent has the one account element the
\* request's script configs carry.
C2_SingleAccount ==
    /\ \A j \in 1..Len(psbt.inputs) :
         C2_FirstDiverging(j)
         => /\ request = <<>>
            /\ spc \in {"start", "inputs", "done"}
            /\ spc = "inputs" => idx <= j - 1
            /\ spc = "done"
                 => /\ result.kind = "error"
                    /\ result.stage \in {"begin", "inputs"}
                    /\ result.stage = "inputs" => result.at <= j - 1
                    /\ (result.stage = "inputs" /\ result.at = j - 1
                          /\ C2_ReachesAccountCheck(j))
                         => /\ result.exc = "BadArgumentError"
                            /\ result.msg = "mixed_account"
    /\ request # <<>>
         => \A i \in 1..Len(request[1].inputs) :
              \A c \in 1..Len(request[1].script_configs) :
                 request[1].inputs[i].keypath[3]
                   = request[1].script_configs[c].keypath[3]

\* the second input is on another account than the first, and sign_tx
\* failed there with the mixed-accounts error, nothing sent
C2_Witness ==
    /\ Len(psbt.inputs) = 2
    /\ C2_FirstDiverging(2)
    /\ result = Raised("inputs", "BadArgumentError", "mixed_account", 1)
    /\ request = <<>>

\* input i carries a spent-output record and no previous transaction
C9_OnlyWitnessUtxo(i) ==
    /\ psbt.inputs[i].non_witness_utxo = <<>>
    /\ psbt.inputs[i].witness_utxo # <<>>

\* C9 as stated (SpecSign): an input that carries only a spent-output record
\* has its previous output resolved from it and does not fail the resolve
\* step.
C9_WitnessUtxoSuffices ==
    \A i \in 1..Len(psbt.inputs) :
        (C9_OnlyWitnessUtxo(i) /\ result.kind = "error"
            /\ result.stage = "inputs" /\ result.at = i - 1)
        => result.msg \notin {"no_utxo", "prevtx_missing"}

\* C9 as amended (SpecSign): where the previous transaction is present its
\* referenced output is the previous output used (its value and the
\* transaction itself go into the request, also when a spent-output record
\* stands beside it); a spent-output record alone is taken as the output but
\* does not pass the resolve step: the input fails with the BadArgumentError
\* "Previous transaction missing", so no request is ever built from one.
C9_PrevOutResolution ==
    /\ request # <<>>
         => /\ Len(request[1].inputs) = Len(psbt.inputs)
            /\ \A i \in 1..Len(psbt.inputs) :
                 /\ psbt.inputs[i].non_witness_utxo # <<>>
                 /\ request[1].inputs[i].prev_tx = psbt.inputs[i].non_witness_utxo[1]
                 /\ request[1].inputs[i].prev_out_value
                      = psbt.inputs[i].non_witness_utxo[1]
                            .vout[psbt.inputs[i].prevout.n + 1].nValue
    /\ \A i \in 1..Len(psbt.inputs) :
         (C9_OnlyWitnessUtxo(i) /\ result.kind = "error"
             /\ result.stage = "inputs" /\ result.at = i - 1
             /\ psbt.inputs[i].sighash \in {0, 1})
         => /\ result.exc = "BadArgumentError"
            /\ result.msg = "prevtx_missing"
            /\ request = <<>>

\* the second input had only a spent-output record and failed on it
C9_Witness ==
    /\ Len(psbt.inputs) = 2
    /\ C9_OnlyWitnessUtxo(2)
    /\ result = Raised("inputs", "BadArgumentError", "prevtx_missing", 1)
    /\ request = <<>>

\* input i carries neither a previous transaction nor a spent-output record
C10_NoPrevOut(i) ==
    /\ psbt.inputs[i].non_witness_utxo = <<>>
    /\ psbt.inputs[i].witness_utxo = <<>>

\* C10 (SpecSign): with an input that has neither previous-transaction data
\* nor a spent-output record no request is ever sent and sign_tx ends in an
\* error no later than at that input; where the loop gets to resolving that
\* input the error is the BadArgumentError "No utxo found for input i",
\* naming it, not another exception.
C10_MissingPrevOut ==
    \A i \in 1..Len(psbt.inputs) :
        C10_NoPrevOut(i)
        => /\ request = <<>>
           /\ spc \in {"start", "inputs", "done"}
           /\ spc = "done"
                => /\ result.kind = "error"
                   /\ result.stage \in {"begin", "inputs"}
                   /\ result.stage = "inputs" => result.at <= i - 1
                   /\ (result.stage = "inputs" /\ result.at = i - 1
                         /\ psbt.inputs[i].sighash \in {0, 1})
                        => result = Raised("inputs", "BadArgumentError",
                                           "no_utxo", i - 1)

\* the second input had neither and sign_tx failed on it, naming it
C10_Witness ==
    /\ Len(psbt.inputs) = 2
    /\ C10_NoPrevOut(2)
    /\ result = Raised("inputs", "BadArgumentError", "no_utxo", 1)
    /\ request = <<>>

\* input i carries a previous transaction whose hash is not the one its
\* outpoint refers to
C11_WrongHash(i) ==
    /\ psbt.inputs[i].non_witness_utxo # <<>>
    /\ psbt.inputs[i].non_witness_utxo[1].sha256 # psbt.inputs[i].prevout.hash

\* C11 (SpecSign): with an input whose previous transaction has another hash
\* than the outpoint refers to, no request is ever sent and sign_tx ends in
\* an error no later than at that input; where the loop gets to resolving
\* that input the error is the BadArgumentError about the wrong hash, naming
\* it, raised before the output is indexed (also when the index is out of
\* range); and every previous transaction in a sent request has the hash its
\* input refers to.
C11_HashChecked ==
    /\ \A i \in 1..Len(psbt.inputs) :
         C11_WrongHash(i)
         => /\ request = <<>>
            /\ spc \in {"start", "inputs", "done"}
            /\ spc = "done"
                 => /\ result.kind = "error"
                    /\ result.stage \in {"begin", "inputs"}
                    /\ result.stage = "inputs" => result.at <= i - 1
                    /\ (result.stage = "inputs" /\ result.at = i - 1
                          /\ psbt.inputs[i].sighash \in {0, 1})
                         => result = Raised("inputs", "BadArgumentError",
                                            "wrong_hash", i - 1)
    /\ request # <<>>
         => \A i \in 1..Len(request[1].inputs) :
              /\ request[1].inputs[i].prev_out_hash = psbt.inputs[i].prevout.hash
              /\ request[1].inputs[i].prev_tx.sha256 = psbt.inputs[i].prevout.hash

\* the second input came with a previous transaction of another hash that
\* has no output at the index referred to, and sign_tx failed on the hash
C11_Witness ==
    /\ Len(psbt.inputs) = 2
    /\ C11_WrongHash(2)
    /\ psbt.inputs[2].prevout.n >= Len(psbt.inputs[2].non_witness_utxo[1].vout)
    /\ result = Raised("inputs", "BadArgumentError", "wrong_hash", 1)
    /\ request = <<>>

\* the positions of input i's key associations that carry the fingerprint
\* of the device
C12_Own(i) ==
    { k \in 1..Len(psbt.inputs[i].hd_keypaths) :
        psbt.inputs[i].hd_keypaths[k].fp = "fp_device" }

\* the first of them in iteration order
C12_First(i) ==
    psbt.inputs[i].hd_keypaths[CHOOSE k \in C12_Own(i) : \A m \in C12_Own(i) : k <= m]

C13_Script(i) ==
    psbt.inputs[i].non_witness_utxo[1].vout[psbt.inputs[i].prevout.n + 1].scriptPubKey

C13_Class(i) ==
    IF C13_Script(i) = "p2wpkh" THEN "native"
    ELSE IF C13_Script(i) = "p2sh" /\ psbt.inputs[i].redeem_script = "p2wpkh"
         THEN "wrapped"
         ELSE "unsupported"

\* input i passes the checks sign_tx makes before it classifies the script
C13_ReachesClassification(i) ==
    /\ C2_ReachesAccountCheck(i)
    /\ Len(C2_SignerPath(i)) >= 3
    /\ ~C2_Diverges(i)

\* C13 (SpecSign): in a request that is sent every input spends either a
\* pay-to-witness-key-hash output and has script config index 0, or a
\* pay-to-script-hash output with a pay-to-witness-key-hash redeem script and
\* has index 1; an input spending any other script lets no request be sent
\* and, where the loop gets to classifying it, fails with a BadArgumentError
\* (the legacy one for pay-to-key-hash, "not recognized" for the rest).
C13_InputClassification ==
    /\ request # <<>>
         => \A i \in 1..Len(psbt.inputs) :
              /\ C2_ReachesAccountCheck(i)
              /\ \/ C13_Class(i) = "native"
                      /\ request[1].inputs[i].script_config_index = 0
                 \/ C13_Class(i) = "wrapped"
                      /\ request[1].inputs[i].script_config_index = 1
    /\ \A i \in 1..Len(psbt.inputs) :
         (C2_ReachesAccountCheck(i) /\ C13_Class(i) = "unsupported")
         => /\ request = <<>>
            /\ spc \in {"start", "inputs", "done"}
            /\ spc = "done"
                 => /\ result.kind = "error"
                    /\ result.stage \in {"begin", "inputs"}
                    /\ result.stage = "inputs" => result.at <= i - 1
                    /\ (result.stage = "inputs" /\ result.at = i - 1
                          /\ C13_ReachesClassification(i))
                         => result = Raised("inputs", "BadArgumentError",
                                IF C13_Script(i) = "p2pkh" THEN "legacy_p2pkh"
                                ELSE "input_script", i - 1)

\* a request went out for a native and a wrapped segwit input
C13_Witness ==
    /\ request # <<>>
    /\ Len(psbt.inputs) = 2
    /\ C13_Class(1) = "native" /\ request[1].inputs[1].script_config_index = 0
    /\ C13_Class(2) = "wrapped" /\ request[1].inputs[2].script_config_index = 1

\* the script config indices the inputs and change outputs of the request
\* refer to
C16_UsedIndices ==
    { request[1].inputs[i].script_config_index : i \in 1..Len(request[1].inputs) }
    \cup
    { request[1].outputs[k].script_config_index :
        k \in { n \in 1..Len(request[1].outputs) :
                  request[1].outputs[n].kind = "internal" } }

\* C16 as stated (SpecSign): a request carries one script config per script
\* type its inputs and change outputs use, so exactly one when all of them
\* are native segwit.
C16_OneConfigPerUsedType ==
    request # <<>>
    => Len(request[1].script_configs) = Cardinality(C16_UsedIndices)

\* C16 as amended (SpecSign): every request carries the same two script
\* configs whatever its inputs use: native segwit at index 0 with keypath
\* [84', coin', account] and wrapped segwit at index 1 with keypath
\* [49', coin', account], coin' being 1' on testnet and 0' otherwise and
\* account the account element of the signer key paths; each input's index
\* is that of the config of its script type.
C16_BothConfigsAlways ==
    request # <<>>
    => LET coin == IF is_testnet THEN [h |-> 1, v |-> 1] ELSE [h |-> 1, v |-> 0]
           account == C2_SignerPath(1)[3]
       IN /\ request[1].script_configs =
                << [simple_type |-> "P2WPKH",
                    keypath |-> <<[h |-> 1, v |-> 84], coin, account>>],
                   [simple_type |-> "P2WPKH_P2SH",
                    keypath |-> <<[h |-> 1, v |-> 49], coin, account>>] >>
          /\ C16_UsedIndices \subseteq {0, 1}
          /\ \A i \in 1..Len(psbt.inputs) :
               request[1].script_configs[request[1].inputs[i].script_config_index + 1]
                   .simple_type
                 = IF C13_Class(i) = "native" THEN "P2WPKH" ELSE "P2WPKH_P2SH"

\* a request went out for two native segwit inputs of one account and no
\* change, with two script configs
C16_Witness ==
    /\ request # <<>>
    /\ Len(psbt.inputs) = 2
    /\ \A i \in 1..2 : C13_Class(i) = "native" /\ Cardinality(C12_Own(i)) = 1
    /\ C16_UsedIndices = {0}
    /\ Len(request[1].script_configs) = 2

\* bytes from + 1 .. from + 32 of the signature the device returned k-th
C17_Bytes(k, from) == [j \in 1..32 |-> answered[1].sigs[k][2][from + j]]

\* the partial signatures of input i after its signature was merged
C17_Merged(i) ==
    { e \in psbt.inputs[i].partial_sigs : e.pubkey # C12_First(i).pubkey }
    \cup
    { [pubkey |-> C12_First(i).pubkey,
       sig |-> [r |-> C17_Bytes(i, 0), s |-> C17_Bytes(i, 32), hashtype |-> 1]] }

\* C17 (SpecSign): when sign_tx returns, the k-th signature returned has
\* been split into r (bytes 0..31) and s (bytes 32..63), encoded with the
\* SIGHASH_ALL byte, and stored in the k-th input's partial signatures under
\* the signer key found for that input; the entries under other keys are
\* those the PSBT came with, and an input no signature came for has the
\* partial signatures it came with.
C17_SignatureMerge ==
    result.kind = "ok"
    => /\ Len(partial_sigs) = Len(psbt.inputs)
       /\ answered # NoAnswer
       /\ \A i \in 1..Len(psbt.inputs) :
            partial_sigs[i] = IF i <= Len(answered[1].sigs) THEN C17_Merged(i)
                              ELSE psbt.inputs[i].partial_sigs

\* sign_tx returned for two inputs with different signer keys, one of which
\* came with a signature of another signer, and both have their signature
C17_Witness ==
    /\ result.kind = "ok"
    /\ Len(psbt.inputs) = 2
    /\ Len(answered[1].sigs) = 2
    /\ C12_First(1).pubkey # C12_First(2).pubkey
    /\ \E i \in 1..2 : psbt.inputs[i].partial_sigs # {}
    /\ \A i \in 1..2 :
         /\ partial_sigs[i] = C17_Merged(i)
         /\ psbt.inputs[i].partial_sigs \subseteq partial_sigs[i]

\* =====================================================================
\* Properties of sign_tx's outputs and of the key path policy
\* =====================================================================

\* the path of the first association of output k that carries the
\* fingerprint of the device, <<>> if it has none
C14_OwnPath(k) ==
    LET own == { n \in 1..Len(psbt.outputs[k].hd_keypaths) :
                   psbt.outputs[k].hd_keypaths[n].fp = "fp_device" }
    IN IF own = {} THEN <<>>
       ELSE psbt.outputs[k].hd_keypaths[CHOOSE n \in own : \A m \in own : n <= m].path

\* that path is a change path: its second-to-last element is 1
C14_ChangePath(k) ==
    /\ Len(C14_OwnPath(k)) >= 2
    /\ C14_OwnPath(k)[Len(C14_OwnPath(k)) - 1] = [h |-> 0, v |-> 1]

\* C14 (SpecSignOut): an output stands in the request as an internal output
\* only if its own key path is a change path and has the account element of
\* the inputs' signer key paths.
C14_ChangeOfSameAccount ==
    request # <<>>
    => \A k \in 1..Len(request[1].outputs) :
         request[1].outputs[k].kind = "internal"
         => /\ C14_ChangePath(k)
            /\ Len(C14_OwnPath(k)) >= 3
            /\ C14_OwnPath(k)[3] = C2_SignerPath(1)[3]

\* the hash a script of one of the four shapes pays to
C15_Hash(spk) ==
    [i \in 1..(IF spk = "p2wsh" THEN 32 ELSE 20) |->
        ScriptBytes(spk)[(IF spk = "p2pkh" THEN 3 ELSE 2) + i]]

C15_Shapes == {"p2pkh", "p2wpkh", "p2sh", "p2wsh"}

\* C15 (SpecSignOut): a request that is sent has one output record per PSBT
\* output, in PSBT order; the record of an output without a change path of
\* the device is external and gives the one of the four types its script
\* has the shape of, the hash in the script and the value; such an output of
\* any other shape lets no request be sent, and where the loop over the
\* outputs gets to it sign_tx fails with the BadArgumentError "Output type
\* not recognized", naming it.
C15_OutputsDescribed ==
    /\ request # <<>>
         => /\ Len(request[1].outputs) = Len(psbt.outputs)
            /\ \A k \in 1..Len(psbt.outputs) :
                 /\ request[1].outputs[k].value = psbt.outputs[k].nValue
                 /\ ~C14_ChangePath(k)
                      => /\ psbt.outputs[k].scriptPubKey \in C15_Shapes
                         /\ request[1].outputs[k] =
                              [kind |-> "external", keypath |-> <<>>,
                               value |-> psbt.outputs[k].nValue,
                               script_config_index |-> 0,
                               output_type |-> psbt.outputs[k].scriptPubKey,
                               output_hash |-> C15_Hash(psbt.outputs[k].scriptPubKey)]
    /\ \A k \in 1..Len(psbt.outputs) :
         (~C14_ChangePath(k) /\ psbt.outputs[k].scriptPubKey \notin C15_Shapes)
         => /\ request = <<>>
            /\ spc \in {"start", "inputs", "outputs", "done"}
            /\ spc = "done"
                 => /\ result.kind = "error"
                    /\ result.stage \in {"begin", "inputs", "outputs"}
                    /\ result.stage = "outputs"
                         => /\ result.at <= k - 1
                            /\ result.at = k - 1
                                 => result = Raised("outputs", "BadArgumentError",
                                                    "output_type", k - 1)

\* a request went out with a pay-to-key-hash and a pay-to-script-hash output
C15_Witness ==
    /\ request # <<>>
    /\ Len(psbt.outputs) = 2
    /\ psbt.outputs[1].scriptPubKey = "p2pkh" /\ ~C14_ChangePath(1)
    /\ psbt.outputs[2].scriptPubKey = "p2sh" /\ ~C14_ChangePath(2)
    /\ request[1].outputs[1].output_type = "p2pkh"
    /\ Len(request[1].outputs[1].output_hash) = 20
    /\ request[1].outputs[2].output_type = "p2sh"

\* what the claims about key paths say a path must be: e is hardened with
\* index in lo..hi, or unhardened in lo..hi
C19_Hardened(e, lo, hi) == e.h = 1 /\ lo <= e.v /\ e.v <= hi

C19_Plain(e, lo, hi) == e.h = 0 /\ lo <= e.v /\ e.v <= hi

C19_Coin == IF is_testnet THEN 1 ELSE 0

C19_Accepted(p) ==
    \/ /\ Len(p) = 3
       /\ C19_Hardened(p[1], 49, 49) \/ C19_Hardened(p[1], 84, 84)
       /\ C19_Hardened(p[2], C19_Coin, C19_Coin)
       /\ C19_Hardened(p[3], 0, 99)
    \/ /\ Len(p) = 4
       /\ C19_Hardened(p[1], 48, 48)
       /\ C19_Hardened(p[2], C19_Coin, C19_Coin)
       /\ C19_Hardened(p[3], 0, 99)
       /\ C19_Hardened(p[4], 2, 2)

\* C19 (SpecKeypath): get_pubkey_at_path makes its one btc_xpub call, with
\* the path as given, exactly for the paths [49' or 84', coin', account'] and
\* [48', coin', account', 2'] with coin 0 on mainnet and 1 on testnet and
\* account in 0..99; for every other path it raises KeypathError and calls
\* nothing. On mainnet _get_xpub takes [84',0',0'] and [84',0',99'] and
\* refuses [84',1',0'] and [84',0',100'].
C19_XpubPolicy ==
    /\ (call.name = "get_pubkey_at_path" /\ reply # NoResult)
         => IF C19_Accepted(call.path)
            THEN /\ device_calls =
                      <<[op |-> "btc_xpub", keypath |-> call.path,
                         coin |-> IF is_testnet THEN "TBTC" ELSE "BTC",
                         type |-> IF is_testnet THEN "TPUB" ELSE "XPUB",
                         display |-> FALSE]>>
                 /\ reply.exc # "KeypathError"
            ELSE /\ device_calls = <<>>
                 /\ reply = Raised("keypath", "KeypathError", "", 0 - 1)
    /\ get_xpub(FALSE, <<[h |-> 1, v |-> 84], [h |-> 1, v |-> 0], [h |-> 1, v |-> 0]>>).exc = ""
    /\ get_xpub(FALSE, <<[h |-> 1, v |-> 84], [h |-> 1, v |-> 0], [h |-> 1, v |-> 99]>>).exc = ""
    /\ get_xpub(FALSE, <<[h |-> 1, v |-> 84], [h |-> 1, v |-> 1], [h |-> 1, v |-> 0]>>).exc = "ValueError"
    /\ get_xpub(FALSE, <<[h |-> 1, v |-> 84], [h |-> 1, v |-> 0], [h |-> 1, v |-> 100]>>).exc = "ValueError"

\* on mainnet the xpub of [84',0',99'] was asked of the device and returned
C19_Witness ==
    /\ call.name = "get_pubkey_at_path"
    /\ ~is_testnet
    /\ call.path = <<[h |-> 1, v |-> 84], [h |-> 1, v |-> 0], [h |-> 1, v |-> 99]>>
    /\ Len(device_calls) = 1
    /\ reply = Returned

\* what C20 says of an address path
C20_CheckTrue(p, purpose) ==
    /\ Len(p) = 5
    /\ p[1] = purpose
    /\ C19_Hardened(p[2], C19_Coin, C19_Coin)
    /\ C19_Hardened(p[3], 0, 99)
    /\ C19_Plain(p[4], 0, 1)
    /\ C19_Plain(p[5], 0, 9999)

\* display_address was asked for a script type the device has, without a
\* redeem script, and the purpose that goes with the type
C20_TypeRequested ==
    /\ call.redeem_script \in {<<>>, <<"">>}
    /\ call.p2sh_p2wpkh \/ call.bech32

C20_Purpose == IF call.p2sh_p2wpkh THEN [h |-> 1, v |-> 49] ELSE [h |-> 1, v |-> 84]

\* C20 (SpecKeypath): _check_address_keypath_simple is true exactly for the
\* 5-element paths [expected purpose, coin', account', change, address] with
\* coin 0 on mainnet and 1 on testnet, account in 0..99, change 0 or 1 and
\* address in 0..9999; display_address makes its btc_address call only where
\* a script type is requested and the check is true for that type's purpose
\* (49' for p2sh-p2wpkh, 84' for bech32), and where a type is requested and
\* the check is false it raises KeypathError and calls nothing.
C20_AddressPolicy ==
    call.name = "display_address"
    => /\ \A purpose \in PathElems(1) :
            check_address_keypath_simple(is_testnet, call.path, purpose)
              <=> C20_CheckTrue(call.path, purpose)
       /\ device_calls # <<>>
            => /\ C20_TypeRequested
               /\ C20_CheckTrue(call.path, C20_Purpose)
               /\ device_calls =
                    <<[op |-> "btc_address", keypath |-> call.path,
                       coin |-> IF is_testnet THEN "TBTC" ELSE "BTC",
                       type |-> IF call.p2sh_p2wpkh THEN "P2WPKH_P2SH" ELSE "P2WPKH",
                       display |-> TRUE]>>
       /\ (reply # NoResult /\ C20_TypeRequested)
            => IF C20_CheckTrue(call.path, C20_Purpose)
               THEN Len(device_calls) = 1 /\ reply.exc # "KeypathError"
               ELSE device_calls = <<>>
                    /\ reply = Raised("keypath", "KeypathError", "", 0 - 1)

\* on mainnet the bech32 address of [84',0',99',1,9999] was shown
C20_Witness ==
    /\ call.name = "display_address"
    /\ ~is_testnet
    /\ call.bech32 /\ ~call.p2sh_p2wpkh
    /\ call.path = <<[h |-> 1, v |-> 84], [h |-> 1, v |-> 0], [h |-> 1, v |-> 99],
                     [h |-> 0, v |-> 1], [h |-> 0, v |-> 9999]>>
    /\ Len(device_calls) = 1
    /\ reply = Returned

\* C18 (SpecSignOut): in a request that is sent the key path of every input
\* and of every internal output is an address path of the key path policy
\* (purpose 49' or 84', the coin type of the network, account in 0..99,
\* change 0 or 1, address in 0..9999).
C18_PathsInPolicy ==
    request # <<>>
    => /\ \A i \in 1..Len(request[1].inputs) :
            \/ C20_CheckTrue(request[1].inputs[i].keypath, [h |-> 1, v |-> 49])
            \/ C20_CheckTrue(request[1].inputs[i].keypath, [h |-> 1, v |-> 84])
       /\ \A k \in 1..Len(request[1].outputs) :
            request[1].outputs[k].kind = "internal"
            => \/ C20_CheckTrue(request[1].outputs[k].keypath, [h |-> 1, v |-> 49])
               \/ C20_CheckTrue(request[1].outputs[k].keypath, [h |-> 1, v |-> 84])

\* =====================================================================
\* Properties of the device's answers: bitbox02_exception, the merge of the
\* signatures, the sighash check
\* =====================================================================

\* the exception bitbox02_exception is to let out for the one the device
\* call raised
C21_Expected ==
    LET a == answered[1] IN
    IF a.exc = "UserAbortException" THEN "ActionCanceledError"
    ELSE IF a.exc = "Bitbox02Exception" /\ a.code \in {101, 103}
         THEN "BadArgumentError"
         ELSE IF a.exc = "FirmwareVersionOutdatedException"
              THEN "DeviceNotReadyError"
              ELSE a.exc

\* C21 (SpecSign): when the device call inside sign_tx raises, sign_tx ends
\* with the exception the wrapper maps it to: a user abort becomes an
\* ActionCanceledError, a Bitbox02Exception with code ERR_GENERIC or
\* ERR_INVALID_INPUT (101) becomes a BadArgumentError "invalid input", and
\* a Bitbox02Exception with another code leaves with its class and code.
\* An error of sign_tx's own checks leaves as raised, without the device
\* having been called. An ActionCanceledError comes from a user abort only,
\* and a user abort never ends as a BadArgumentError.
C21_ErrorMapping ==
    /\ (answered # NoAnswer /\ answered[1].kind = "raise")
       => /\ result.kind = "error"
          /\ result.stage = "device"
          /\ result.exc = C21_Expected
          /\ (answered[1].exc = "Bitbox02Exception"
              /\ answered[1].code \notin {101, 103})
             => result = Raised("device", "Bitbox02Exception",
                                ToString(answered[1].code), 0 - 1)
          /\ answered[1].exc = "UserAbortException"
             <=> result.exc = "ActionCanceledError"
          /\ answered[1].exc = "UserAbortException"
             => result.exc # "BadArgumentError"
    /\ (result.kind = "error" /\ answered = NoAnswer)
       => /\ result.stage \in {"begin", "inputs", "outputs", "send"}
          /\ result.exc \notin {"ActionCanceledError", "DeviceNotReadyError"}
    /\ result.exc = "ActionCanceledError"
       => answered # NoAnswer /\ answered[1].exc = "UserAbortException"

\* the device raised a Bitbox02Exception with a code that is neither
\* ERR_GENERIC nor ERR_INVALID_INPUT, and sign_tx let it out as it was
C21_Witness ==
    /\ answered # NoAnswer
    /\ answered[1].exc = "Bitbox02Exception"
    /\ answered[1].code = 102
    /\ result.exc = "Bitbox02Exception"
    /\ result.msg = "102"

\* the entry input i is to get: the signature the device made for input i,
\* split and encoded, under the signer key found for it
C22_Entry(i) ==
    [pubkey |-> C12_First(i).pubkey,
     sig |-> [r |-> [j \in 1..32 |-> DeviceSig(i)[j]],
              s |-> [j \in 1..32 |-> DeviceSig(i)[32 + j]],
              hashtype |-> 1]]

\* C22 (SpecSign): whenever sign_tx returns, every input has, under the
\* signer key found for it, the signature the device made for that input,
\* whatever the device answered: an answer with fewer signatures than
\* inputs, or with signatures in an order other than their indices, does not
\* end in a return with an input unsigned or signed with another input's
\* signature.
C22_EveryInputSigned ==
    result.kind = "ok"
    => \A i \in 1..Len(psbt.inputs) : C22_Entry(i) \in partial_sigs[i]

\* input i asks for a hash type other than SIGHASH_ALL
C23_OtherHashType(i) == psbt.inputs[i].sighash \notin {0, 1}

\* C23 (SpecSign): an input whose sighash is neither unset (0) nor 1 stops
\* sign_tx: the loop over the inputs never gets past it, no request is sent,
\* no signature is stored, sign_tx ends in an error raised for that input or
\* an earlier one, and the error raised for that input is the
\* BadArgumentError of the sighash check. That error is raised for such
\* inputs only, and an input that got a signature has sighash 0 or 1.
C23_SighashAllOnly ==
    /\ \A i \in 1..Len(psbt.inputs) :
         C23_OtherHashType(i)
         => /\ request = <<>>
            /\ answered = NoAnswer
            /\ C1_SigsAsAtEntry
            /\ spc \in {"start", "inputs", "done"}
            /\ spc = "inputs" => idx <= i - 1
            /\ Len(found_pubkeys) <= i - 1
            /\ spc = "done"
               => /\ result.kind = "error"
                  /\ result.stage \in {"begin", "inputs"}
                  /\ result.at <= i - 1
                  /\ result.at = i - 1
                     => result = Raised("inputs", "BadArgumentError", "sighash",
                                        i - 1)
    /\ (result.kind = "error" /\ result.msg = "sighash")
       => /\ result.stage = "inputs"
          /\ C23_OtherHashType(result.at + 1)
    /\ \A i \in 1..Len(partial_sigs) :
         partial_sigs[i] # psbt.inputs[i].partial_sigs
         => psbt.inputs[i].sighash \in {0, 1}

\* the first input, with sighash 1, passed all checks, and sign_tx ended at
\* the second, which asks for hash type 2 and is in order otherwise
C23_Witness ==
    /\ Len(psbt.inputs) = 2
    /\ psbt.inputs[1].sighash = 1
    /\ psbt.inputs[2].sighash = 2
    /\ C2_ReachesAccountCheck(1)
    /\ psbt.inputs[2].non_witness_utxo # <<>>
    /\ Len(found_pubkeys) = 1
    /\ result = Raised("inputs", "BadArgumentError", "sighash", 1)

\* =====================================================================
\* Properties of the session counter over a failing handle and under
\* concurrent callers
\* =====================================================================

\* the call made by this step, "" if the step is no begin/end call
C24_Call == IF Len(trace') = Len(trace) + 1 THEN trace'[Len(trace')] ELSE ""

\* the handle call made by this step, "" if none
C24_LinkCall ==
    IF Len(link_calls') = Len(link_calls) + 1 THEN link_calls'[Len(link_calls')]
    ELSE ""

\* C24 (SpecLinkFail): a begin_session in which open() raises happens at
\* counter 0 and leaves the counter 0; an end_session in which close()
\* raises happens at counter 1 and leaves the counter 1; in both the
\* exception that leaves the call is the one the handle raised. Every
\* begin_session at counter 0 calls open(), also after a failed one, and a
\* call in which the handle does not raise lets nothing out.
C24_LinkFailure ==
    [][/\ C24_Call = "begin_raised"
          => /\ session_counter = 0
             /\ session_counter' = 0
             /\ C24_LinkCall = "open_raised"
       /\ C24_Call = "end_raised"
          => /\ session_counter = 1
             /\ session_counter' = 1
             /\ C24_LinkCall = "close_raised"
       /\ C24_Call \in {"begin_raised", "end_raised"}
          => /\ link_raised' \in LinkErrors
             /\ session_raised' = link_raised'
       /\ C24_LinkCall \in {"open_raised", "close_raised"}
          => C24_Call \in {"begin_raised", "end_raised"}
       /\ (C24_Call \in {"begin", "begin_raised"} /\ session_counter = 0)
          => C24_LinkCall \in {"open", "open_raised"}
       /\ C24_Call \in {"begin", "end"}
          => link_raised' = "" /\ session_raised' = ""
      ]_vars

\* open() raised in a first begin_session, a second begin_session opened
\* the link, and close() raised in the end_session that followed: the
\* counter is still 1
C24_Witness ==
    /\ trace = <<"begin_raised", "begin", "end_raised">>
    /\ link_calls = <<"open_raised", "open", "close_raised">>
    /\ session_counter = 1
    /\ session_raised = "OSError"

\* =====================================================================
\* Termination of ProtocolV1.read and ProtocolV1.write
\* =====================================================================

\* the bound on the read_chunk calls of a read() of declared length L
C25_MaxChunks(L) == 1 + ((IF L > 55 THEN L - 55 ELSE 0) + 62) \div 63

\* the declared length of the read() this step belongs to; a first block
\* that is refused for its marker declares none, and is counted with the
\* least bound, that of length 0
C25_Declared ==
    IF rpc = "next" THEN rlen
    ELSE IF FirstMagicOk(Head(link)) THEN Unpack_HL(PySlice(Head(link), 3, 9))[2]
         ELSE 0

\* write_chunk calls of a write() of L payload bytes: 8 header bytes and L
\* payload bytes, 63 to a block
C25_WriteCalls(L) == (8 + L + 62) \div 63

\* C25 (SpecRead): on a link where read_chunk always returns a 64-byte block,
\* every read() ends: a read() that has been started is back at rest after
\* finitely many steps, while it runs it has made fewer read_chunk calls than
\* 1 + ceil(max(0, L - 55) / 63) for its declared length L, and when it ends
\* it has made at most that many and has either returned a message of L
\* bytes or raised the RuntimeError of a wrong marker. The number of blocks
\* of a write() is that of its payload length alone.
C25_Terminates ==
    /\ [](rpc = "next" => rn < C25_MaxChunks(rlen))
    /\ [][Len(received') = Len(received) + 1
          => LET out == received'[Len(received')] IN
               /\ out.kind \in {"msg", "RuntimeError"}
               /\ out.nchunks <= C25_MaxChunks(C25_Declared)
               /\ out.kind = "msg"
                  => /\ Len(out.data) = C25_Declared
                     /\ out.nchunks = C25_MaxChunks(C25_Declared)
         ]_vars
    /\ [](\A k \in 1..Len(written) :
            Len(written[k].blocks) = C25_WriteCalls(Len(written[k].ser)))
    /\ (rpc = "next" ~> rpc = "idle")
    /\ <>(link = <<>> /\ rpc = "idle" /\ received # <<>>)

\* a read() of a message of four blocks ended with a RuntimeError at its
\* third read_chunk call
C25_Witness ==
    /\ Len(written[1].blocks) = 4
    /\ Len(received) = 1
    /\ received[1].kind = "RuntimeError"
    /\ received[1].nchunks = 3

\* the begin_session (name = "begin") or end_session calls that returned
C26_Returned(name) == Cardinality({k \in 1..Len(trace) : trace[k] = name})

\* open() was called twice with no close() in between
C26_DoubleOpen ==
    \E k \in 1..(Len(link_calls) - 1) :
        link_calls[k] = "open" /\ link_calls[k + 1] = "open"

\* no call is under way and the counter is not begins - ends
C26_LostUpdate ==
    /\ \A t \in Threads : tpc[t] = "idle"
    /\ session_counter # C26_Returned("begin") - C26_Returned("end")

\* C26 (SpecThreads): the counter is safe only under serialization. With two
\* threads calling begin_session/end_session, the test of the counter, the
\* handle call, and the load and store of the counter update being separate
\* steps, open() is called twice with no close() in between, and the counter
\* at rest differs from (begins - ends), only in runs in which calls of the
\* two threads overlapped: as long as no thread took a step while the other
\* was inside a call neither happens. (C26_Witness: with overlapping calls
\* both do happen.)
C26_UnsafeWithoutSerialization ==
    ~overlapped => (~C26_DoubleOpen /\ ~C26_LostUpdate)

\* two begin_session calls overlapped: both found the counter 0, both called
\* open(), both stored 1; the counter is 1 after two begins and no end
C26_Witness ==
    /\ overlapped
    /\ trace = <<"begin", "begin">>
    /\ link_calls = <<"open", "open">>
    /\ C26_DoubleOpen
    /\ C26_LostUpdate
    /\ session_counter = 1

\* =====================================================================
\* Properties of Bitbox02Client.init
\* =====================================================================

\* positions of the entries of the last enumeration that have the client's
\* path
C27_Matching ==
    {k \in 1..Len(init_last.devices) : init_last.devices[k].path = device_path}

\* C27 (SpecInit): an init() call on a client without a cached device
\* object returns an object built from an entry of the enumerated list
\* whose path is the client's, wherever in the list that entry is (or lets
\* out the firmware exception of such an entry), and raises "Could not find
\* the hid device info" if and only if no entry has the client's path; an
\* init() call on a client with a cached object returns that object without
\* enumerating, and the cache keeps it.
C27_InitFindsDevice ==
    init_calls > 0
    => IF init_last.before # <<>>
       THEN /\ init_last.out.kind = "return"
            /\ init_last.out.obj = init_last.before
            /\ ~init_last.out.enumerated
            /\ bb02 = init_last.before
       ELSE /\ C27_Matching = {} <=> init_last.out.exc = "Exception: Could not find"
            /\ C27_Matching # {}
               => \/ /\ init_last.out.kind = "return"
                     /\ \E k \in C27_Matching :
                          init_last.out.obj = <<BitBox02(init_last.devices[k])>>
                     /\ bb02 = init_last.out.obj
                  \/ /\ init_last.out.exc = "FirmwareVersionOutdatedException"
                     /\ \E k \in C27_Matching : init_last.devices[k].outdated

====
